---- MODULE Spec2Model ----
(***************************************************************************)
(* Lexer of yab-parser (crates/yab-parser/src/lexer).                      *)
(*                                                                         *)
(* A source text is a sequence of Unicode code points (Rust chars, kept as  *)
(* integers).  The cursor is an index into it: index is the number of     *)
(* characters consumed so far, so the character under the cursor is        *)
(* source[index + 1].  Every sub-lexer is an operator from (source, index) *)
(* to a result record                                                      *)
(*     [kind, idx, tok, msg]                                               *)
(* kind = "ok"    Ok(Some(token)): token in tok, cursor left at idx        *)
(*        "none"  Ok(None): cursor left at idx                             *)
(*        "err"   Err(msg): cursor left at idx                             *)
(*        "panic" the routine aborted the process (unwrap on Err)          *)
(***************************************************************************)
EXTENDS Integers, Sequences, FiniteSets, TLC

VARIABLES
    source,          \* the characters of the source buffer (CodeIter.chars)
    index,           \* CodeIter.current_position.index
    line,            \* CodeIter.current_position.line
    column,          \* CodeIter.current_position.column
    tokens,          \* the token list of the running call
    template_depth,  \* number of open template expression contexts
    status,          \* "running" | "ok" | "err" | "none" | "panic"
    error,           \* message of the diagnostic, "" when there is none
    lexer,           \* entry point the call runs: "tokenize" or a sub-lexer
    overflow_checks, \* the build traps integer overflow (debug profile)
    previous_position, \* CodeIter.previous_position (Option<Position>)
    peeked           \* what the last peek() or peek_forward(n) returned

vars ==
    <<source, index, line, column, tokens, template_depth, status, error, lexer,
      overflow_checks, previous_position, peeked>>

----------------------------------------------------------------------------
(* Characters *)

\* the printable ASCII characters in code order, from U+0020; the two quote
\* characters that a string of this module cannot hold are spelled out
ASCII ==
    <<" ", "!", "\"", "#", "$", "%", "&", "APOSTROPHE", "(", ")", "*", "+", ",",
      "-", ".", "/", "0", "1", "2", "3", "4", "5", "6", "7", "8", "9", ":", ";",
      "<", "=", ">", "?", "@", "A", "B", "C", "D", "E", "F", "G", "H", "I", "J",
      "K", "L", "M", "N", "O", "P", "Q", "R", "S", "T", "U", "V", "W", "X", "Y",
      "Z", "[", "\\", "]", "^", "_", "BACKTICK", "a", "b", "c", "d", "e", "f",
      "g", "h", "i", "j", "k", "l", "m", "n", "o", "p", "q", "r", "s", "t", "u",
      "v", "w", "x", "y", "z", "{", "|", "}", "~">>

\* the code point of a character
Ch == [c \in { ASCII[k] : k \in DOMAIN ASCII } |->
          31 + (CHOOSE k \in DOMAIN ASCII : ASCII[k] = c)]

\* the template delimiter and the single quote (template.rs, string.rs)
BACKTICK == 96

APOSTROPHE == 39

\* a string literal of the source, written as a tuple of one-character strings
Str(t) == [i \in DOMAIN t |-> Ch[t[i]]]

\* Option<char>::None of peek()/next()
NoChar == 0 - 1

\* a character as "{}" prints it in a diagnostic; the table of this module
\* holds printable ASCII only, any other character prints as its class
Display(c) == IF c \in 32..126 THEN ASCII[c - 31] ELSE "non-ASCII"

\* a String as "{}" prints it
RECURSIVE Text(_)
Text(lexeme) ==
    IF lexeme = <<>> THEN ""
    ELSE Display(Head(lexeme)) \o Text(Tail(lexeme))

\* the last character of the buffer is never seen
peek_forward_short(src, i, n) == IF i + n + 1 < Len(src) THEN src[i + n + 1] ELSE NoChar

\* CodeIter::peek_forward(n); peek() is peek_forward(0)
peek_forward(src, i, n) == IF i + n + 1 <= Len(src) THEN src[i + n + 1] ELSE NoChar

peek(src, i) == peek_forward(src, i, 0)

Position(l, c, i) == [line |-> l, column |-> c, index |-> i]

\* Position::default(), the position of a fresh iterator
StartPosition == Position(1, 1, 0)

\* previous_position: None of a fresh iterator (no position has line 0)
NoPosition == Position(0, 0, 0)

\* a fresh iterator reports the empty record as its previous position
PreviousPosition_unset(previous) == previous

\* CodeIter::previous_position(): the start of the file while the
\* iterator has not moved
PreviousPosition(previous) ==
    IF previous = NoPosition THEN StartPosition ELSE previous

\* the position moves at the end of the input too
next_past_end(src, pos) ==
    LET char == peek(src, pos.index)
    IN  IF char = 10
        THEN [position |-> Position(pos.line + 1, 1, pos.index + 1), item |-> char,
              previous |-> pos]
        ELSE [position |-> Position(pos.line, pos.column + 1, pos.index + 1),
              item |-> char, previous |-> pos]

\* Iterator::next of CodeIter: the position after the call, the item, and
\* the previous position that the call stores before it looks at the input
next(src, pos) ==
    LET char == peek(src, pos.index)
    IN  IF char = 10
        THEN [position |-> Position(pos.line + 1, 1, pos.index + 1), item |-> char,
              previous |-> pos]
        ELSE IF char # NoChar
        THEN [position |-> Position(pos.line, pos.column + 1, pos.index + 1),
              item |-> char, previous |-> pos]
        ELSE [position |-> pos, item |-> NoChar, previous |-> pos]

\* the position after the calls of next() that take the cursor to index i
RECURSIVE advance(_, _, _)
advance(src, pos, i) ==
    IF pos.index >= i \/ pos.index >= Len(src) THEN pos
    ELSE CHOOSE p \in { advance(src, q, i) : q \in {next(src, pos).position} } : TRUE

\* no character counts as a line terminator
is_line_terminator_never(c) == FALSE

is_line_terminator(c) == c = 10 \/ c = 13 \/ c = 8232 \/ c = 8233

\* char::is_whitespace (Unicode White_Space)
is_whitespace(c) ==
    \/ c \in 9..13
    \/ c \in {32, 133, 160, 5760, 8232, 8233, 8239, 8287, 12288}
    \/ c \in 8192..8202

is_ascii_digit(c) == c \in 48..57

is_oct_digit(c) == c \in 48..55

is_hex_digit(c) == c \in 48..57 \/ c \in 65..70 \/ c \in 97..102

\* char::to_digit(16) of a hexadecimal digit
to_digit(c) ==
    IF c \in 48..57 THEN c - 48
    ELSE IF c \in 65..70 THEN c - 55
    ELSE c - 87

\* char::is_alphabetic, for the code points up to U+00FF
is_alphabetic(c) ==
    \/ c \in 65..90 \/ c \in 97..122
    \/ c \in {170, 181, 186}
    \/ c \in 192..214 \/ c \in 216..246 \/ c \in 248..255

\* char::is_alphanumeric, for the code points up to U+00FF
is_alphanumeric(c) ==
    \/ is_alphabetic(c)
    \/ is_ascii_digit(c)
    \/ c \in {178, 179, 185, 188, 189, 190}

\* std::char::from_u32: surrogates and values above U+10FFFF are no char
is_char(v) == v \in 0..55295 \/ v \in 57344..1114111

NoTok == [type |-> "None", kind |-> "", lexeme |-> <<>>, complete |-> FALSE,
          flags |-> <<>>, value |-> 0, exp |-> 0]

Token(type, kind, lexeme) ==
    [type |-> type, kind |-> kind, lexeme |-> lexeme, complete |-> FALSE,
     flags |-> <<>>, value |-> 0, exp |-> 0]

Res(kind, idx, tok, msg) == [kind |-> kind, idx |-> idx, tok |-> tok, msg |-> msg]

----------------------------------------------------------------------------
(* Escape sequences: escape_chars.rs.  An escape result is                 *)
(* [kind, idx, ch, msg], ch = NoChar for Ok(None).                         *)

Esc(kind, idx, ch, msg) == [kind |-> kind, idx |-> idx, ch |-> ch, msg |-> msg]

\* a u32 as "{}" prints it
RECURSIVE Decimal(_)
Decimal(n) ==
    IF n < 10 THEN <<48 + n>> ELSE Decimal(n \div 10) \o <<48 + (n % 10)>>

RECURSIVE octal_digits(_, _, _, _)
octal_digits(src, i, value, n) ==
    IF n > 0 /\ is_oct_digit(peek(src, i))
    THEN octal_digits(src, i + 1, value * 8 + to_digit(peek(src, i)), n - 1)
    ELSE [idx |-> i, value |-> value]

\* up to three more digits are read after the first
parse_octal_escape_sequence_four_digits(src, i, init) ==
    LET from_u32(r) ==
            IF r.value > 255
            THEN Esc("err", r.idx, NoChar,
                     "invalid octal escape sequence: out of range: "
                         \o Text(Decimal(r.value)))
            ELSE Esc("ok", r.idx, r.value, "")
    IN  from_u32(octal_digits(src, i, to_digit(init), 3))

parse_octal_escape_sequence(src, i, init) ==
    LET from_u32(r) ==
            IF r.value > 255
            THEN Esc("err", r.idx, NoChar,
                     "invalid octal escape sequence: out of range: "
                         \o Text(Decimal(r.value)))
            ELSE Esc("ok", r.idx, r.value, "")
    IN  from_u32(octal_digits(src, i, to_digit(init), 2))

parse_hex_escape_sequence(src, i) ==
    LET invalid_err_msg == "Invalid hexadecimal escape sequence"
        digits(c1, c2) ==
            IF ~is_hex_digit(c1)
            THEN Esc("err", IF c1 = NoChar THEN i ELSE i + 1, NoChar, invalid_err_msg)
            ELSE IF ~is_hex_digit(c2)
            THEN Esc("err", i + 1, NoChar, invalid_err_msg)
            ELSE Esc("ok", i + 2, to_digit(c1) * 16 + to_digit(c2), "")
    IN  digits(peek(src, i), peek(src, i + 1))

\* u32 arithmetic: value * 16 + digit leaves the type once value >= 2^28
U32_SHIFT_LIMIT == 268435456

\* the u32 value is kept as two halves of 16 bits, value = hi * 2^16 + lo
U16 == 65536

\* value = value * 16 + digit overflows u32 once value >= 2^28: a build with
\* overflow checks panics there, a build without them keeps the low 32 bits
RECURSIVE unicode_braced(_, _, _, _)
unicode_braced(src, i, hi, lo) ==
    LET c == peek(src, i)
        low == lo * 16 + to_digit(c)
        high == hi * 16 + low \div U16
    IN  IF is_hex_digit(c)
        THEN IF hi >= U32_SHIFT_LIMIT \div U16 /\ overflow_checks
             THEN Esc("panic", i + 1, NoChar, "attempt to multiply with overflow")
             ELSE unicode_braced(src, i + 1, high % U16, low % U16)
        ELSE IF c = Ch["}"]
        THEN IF hi > 1114111 \div U16
             THEN Esc("err", i + 1, NoChar, "Undefined Unicode code-point")
             ELSE IF is_char(hi * U16 + lo)
             THEN Esc("ok", i + 1, hi * U16 + lo, "")
             ELSE Esc("err", i + 1, NoChar, "Invalid Unicode code-point")
        ELSE Esc("err", i, NoChar, "Invalid hexadecimal escape sequence")

RECURSIVE unicode_fixed(_, _, _, _)
unicode_fixed(src, i, value, n) ==
    IF n = 0
    THEN IF is_char(value)
         THEN Esc("ok", i, value, "")
         ELSE Esc("err", i, NoChar, "Invalid Unicode code-point")
    ELSE LET c == peek(src, i)
         IN  IF is_hex_digit(c)
             THEN unicode_fixed(src, i + 1, value * 16 + to_digit(c), n - 1)
             ELSE Esc("err", IF c = NoChar THEN i ELSE i + 1, NoChar,
                      "Invalid hexadecimal escape sequence")

parse_unicode_escape_sequence(src, i) ==
    IF peek(src, i) = Ch["{"]
    THEN unicode_braced(src, i + 1, 0, 0)
    ELSE unicode_fixed(src, i, 0, 4)

parse_multi_byte_escape(src, i, init) ==
    IF is_oct_digit(init) THEN parse_octal_escape_sequence(src, i, init)
    ELSE IF init = Ch["x"] THEN parse_hex_escape_sequence(src, i)
    ELSE IF init = Ch["u"] THEN parse_unicode_escape_sequence(src, i)
    ELSE Esc("ok", i, init, "")

\* the leading backslash has been consumed; i is the cursor after it
try_parse_escape(src, i) ==
    LET c == peek(src, i)
    IN  CASE c = NoChar -> Esc("err", i, NoChar, "Unexpected EOF while parsing escape sequence")
          [] c = Ch["b"] -> Esc("ok", i + 1, 8, "")
          [] c = Ch["f"] -> Esc("ok", i + 1, 12, "")
          [] c = Ch["n"] -> Esc("ok", i + 1, 10, "")
          [] c = Ch["r"] -> Esc("ok", i + 1, 13, "")
          [] c = Ch["t"] -> Esc("ok", i + 1, 9, "")
          [] c = Ch["v"] -> Esc("ok", i + 1, 11, "")
          [] c = Ch["\""] -> Esc("ok", i + 1, 34, "")
          [] c = APOSTROPHE -> Esc("ok", i + 1, 39, "")
          [] is_line_terminator(c) -> Esc("ok", i + 1, NoChar, "")
          [] OTHER -> parse_multi_byte_escape(src, i + 1, c)

----------------------------------------------------------------------------
(* Template literals: template.rs *)

TemplateLiteralString(lexeme, complete) ==
    [Token("TemplateString", "", lexeme) EXCEPT !.complete = complete]

TemplateLiteralExprOpen == Token("TemplateExprOpen", "", Str(<<"$", "{">>))

TemplateLiteralExprClose == Token("TemplateExprClose", "", Str(<<"}">>))

(* Result of parse_template_literal_string:                                *)
(* [kind, idx, string, expr_open, msg]; expr_open is the Option as BOOLEAN *)
TRes(kind, idx, string, expr_open, msg) ==
    [kind |-> kind, idx |-> idx, string |-> string, expr_open |-> expr_open,
     msg |-> msg]

RECURSIVE parse_template_literal_string_loop(_, _, _)
parse_template_literal_string_loop(src, i, lexeme) ==
    LET next_char == peek(src, i)
        escaped(e) ==
            IF e.kind # "ok"
            THEN TRes(e.kind, e.idx, NoTok, FALSE, e.msg)
            ELSE parse_template_literal_string_loop(src, e.idx,
                     IF e.ch = NoChar THEN lexeme ELSE Append(lexeme, e.ch))
    IN  IF next_char = NoChar
        THEN TRes("err", i, NoTok, FALSE, "Unexpected EOF while parsing template literal")
        ELSE IF next_char = BACKTICK
        THEN TRes("ok", i + 1, TemplateLiteralString(lexeme, TRUE), FALSE, "")
        ELSE IF next_char = Ch["$"]
        THEN IF peek(src, i + 1) = Ch["{"]
             THEN TRes("ok", i + 2, TemplateLiteralString(lexeme, FALSE), TRUE, "")
             ELSE parse_template_literal_string_loop(src, i + 1, Append(lexeme, next_char))
        ELSE IF next_char = Ch["\\"]
        THEN escaped(try_parse_escape(src, i + 1))
        ELSE parse_template_literal_string_loop(src, i + 1, Append(lexeme, next_char))

\* every segment is marked complete, also the one that ends at an expression
parse_template_literal_string_always_complete(src, i) ==
    [parse_template_literal_string_loop(src, i, <<>>) EXCEPT !.string.complete = TRUE]

\* the end of the input closes the segment like a backtick
parse_template_literal_string_eof_closes(src, i) ==
    IF parse_template_literal_string_loop(src, i, <<>>).msg
           = "Unexpected EOF while parsing template literal"
    THEN TRes("ok", Len(src), TemplateLiteralString(<<>>, TRUE), FALSE, "")
    ELSE parse_template_literal_string_loop(src, i, <<>>)

parse_template_literal_string(src, i) ==
    parse_template_literal_string_loop(src, i, <<>>)

try_parse_template_literal_start(src, i) ==
    IF peek(src, i) = BACKTICK
    THEN parse_template_literal_string(src, i + 1)
    ELSE TRes("none", i, NoTok, FALSE, "")

\* a closing brace is never taken as the end of an expression
try_parse_template_literal_expr_end_never(src, i) == TRes("none", i, NoTok, FALSE, "")

try_parse_template_literal_expr_end(src, i) ==
    IF peek(src, i) = Ch["}"]
    THEN parse_template_literal_string(src, i + 1)
    ELSE TRes("none", i, NoTok, FALSE, "")

----------------------------------------------------------------------------
(* String literals: string.rs *)

RECURSIVE try_parse_string_loop(_, _, _, _)
try_parse_string_loop(src, i, delimeter, lexeme) ==
    LET next_char == peek(src, i)
        escaped(e) ==
            IF e.kind # "ok"
            THEN Res(e.kind, e.idx, NoTok, e.msg)
            ELSE try_parse_string_loop(src, e.idx, delimeter,
                     IF e.ch = NoChar THEN lexeme ELSE Append(lexeme, e.ch))
    IN  IF next_char = NoChar
        THEN Res("err", i, NoTok, "Unexpected EOF while parsing string literal")
        ELSE IF next_char = delimeter
        THEN Res("ok", i + 1, Token("StringLiteral", "", lexeme), "")
        ELSE IF is_line_terminator(next_char)
        THEN Res("err", i + 1, NoTok,
                 "Unexpected line terminator while parsing string literal")
        ELSE IF next_char = Ch["\\"]
        THEN escaped(try_parse_escape(src, i + 1))
        ELSE try_parse_string_loop(src, i + 1, delimeter, Append(lexeme, next_char))

\* only the double quote opens a string literal
try_parse_string_double_quote_only(src, i) ==
    IF peek(src, i) = Ch["\""]
    THEN try_parse_string_loop(src, i + 1, peek(src, i), <<>>)
    ELSE Res("none", i, NoTok, "")

try_parse_string(src, i) ==
    IF peek(src, i) = APOSTROPHE \/ peek(src, i) = Ch["\""]
    THEN try_parse_string_loop(src, i + 1, peek(src, i), <<>>)
    ELSE Res("none", i, NoTok, "")

----------------------------------------------------------------------------
(* Operators and punctuation: operator.rs, punctuation.rs, utils.rs and    *)
(* the derive macro of yab-parser-macros.                                  *)

\* OperatorType: <<lexeme, variant>>
OperatorType ==
    { <<Str(e[1]), e[2]>> : e \in
      { <<<<"+">>, "Plus">>, <<<<"-">>, "Minus">>,
        <<<<"*">>, "Multiplication">>, <<<<"/">>, "Division">>,
        <<<<"*", "*">>, "Exponentiation">>, <<<<"%">>, "Modulo">>,
        <<<<"+", "+">>, "Increment">>, <<<<"-", "-">>, "Decrement">>,
        <<<<"=">>, "Assignment">>,
        <<<<"*", "=">>, "MultiplicationAssignment">>,
        <<<<"/", "=">>, "DivisionAssignment">>,
        <<<<"+", "=">>, "AdditionAssignment">>,
        <<<<"-", "=">>, "SubtractionAssigment">>,
        <<<<"<", "<", "=">>, "ShiftLeftAssignment">>,
        <<<<">", ">", "=">>, "ShiftRightAssignment">>,
        <<<<">", ">", ">", "=">>, "ShiftRightUnsignedAssignment">>,
        <<<<"&", "=">>, "BitwiseAndAssignment">>,
        <<<<"|", "=">>, "BitwiseOrAssignment">>,
        <<<<"^", "=">>, "BitwiseXOrAssignment">>,
        <<<<"&", "&", "=">>, "LogicalAndAssignment">>,
        <<<<"|", "|", "=">>, "LogicalOrAssignment">>,
        <<<<"?", "?", "=">>, "NullishCoalescingAssignment">>,
        <<<<"=", "=">>, "LooseEquality">>,
        <<<<"!", "=">>, "LooseNotEquality">>,
        <<<<"=", "=", "=">>, "StrictEquality">>,
        <<<<"!", "=", "=">>, "StrictNotEquality">>,
        <<<<"!">>, "LogicalNot">>, <<<<"&", "&">>, "LogicalAnd">>,
        <<<<"|", "|">>, "LogicalOr">>,
        <<<<"?", "?">>, "NullishCoalescing">>,
        <<<<"~">>, "BitwiseNot">>, <<<<"&">>, "BitwiseAnd">>,
        <<<<"|">>, "BitwiseOr">>, <<<<"^">>, "BitwiseXOr">>,
        <<<<"<", "<">>, "BitwiseShiftLeft">>,
        <<<<">", ">">>, "BitwiseShiftRight">>,
        <<<<">", ">", ">">>, "BitwiseShiftRightUnsigned">>,
        <<<<">">>, "GreaterThan">>,
        <<<<">", "=">>, "GreaterThanOrEqualTo">>,
        <<<<"<">>, "LessThan">>, <<<<"<", "=">>, "LessThanOrEqualTo">>,
        <<<<"?">>, "Ternary">>, <<<<".", ".", ".">>, "ObjectSpread">>,
        <<<<"a", "w", "a", "i", "t">>, "Await">>,
        <<<<"v", "o", "i", "d">>, "Void">>,
        <<<<"t", "y", "p", "e", "o", "f">>, "TypeOf">>,
        <<<<"i", "n", "s", "t", "a", "n", "c", "e", "o", "f">>, "InstanceOf">>,
        <<<<"i", "n">>, "In">>,
        <<<<"y", "i", "e", "l", "d">>, "Yield">> } }

\* PunctuationType: <<lexeme, variant>>
PunctuationType ==
    { <<Str(e[1]), e[2]>> : e \in
      { <<<<";">>, "Semicolon">>, <<<<":">>, "Colon">>,
        <<<<"(">>, "OpenParen">>, <<<<")">>, "CloseParen">>,
        <<<<"[">>, "OpenBracket">>, <<<<"]">>, "CloseBracket">>,
        <<<<"{">>, "OpenBrace">>, <<<<"}">>, "CloseBrace">>,
        <<<<".">>, "Dot">>, <<<<",">>, "Comma">> } }

Lexemes(T) == { e[1] : e \in T }

\* EnumString: T::try_from(lexeme), "" when it is Err
try_from(T, lexeme) ==
    IF lexeme \in Lexemes(T)
    THEN (CHOOSE e \in T : e[1] = lexeme)[2]
    ELSE ""

starts_with(lexeme, prefix) ==
    /\ Len(prefix) <= Len(lexeme)
    /\ SubSeq(lexeme, 1, Len(prefix)) = prefix

\* the generated table maps every non-empty prefix of a lexeme to the
\* lexemes that start with it; the lookup returns their number
fields_starting_with(T, ident) ==
    Cardinality(UNION { { l \in Lexemes(T) : starts_with(l, p) } : p \in {ident} \ {<<>>} })

\* number of bytes of the UTF-8 encoding of a char
len_utf8(c) == IF c < 128 THEN 1 ELSE IF c < 2048 THEN 2 ELSE IF c < 65536 THEN 3 ELSE 4

RECURSIVE prefix_loop(_, _, _, _)
prefix_loop(T, src, i, prefix_lexeme) ==
    LET next_char == peek(src, i)
    IN  IF next_char = NoChar
        THEN [idx |-> i, lexeme |-> prefix_lexeme, sliced |-> TRUE]
        ELSE IF fields_starting_with(T, Append(prefix_lexeme, next_char)) = 0
        THEN \* prefix_lexeme[..len - 1] removes one byte, not one char
             [idx |-> i, lexeme |-> prefix_lexeme, sliced |-> len_utf8(next_char) = 1]
        ELSE prefix_loop(T, src, i + 1, Append(prefix_lexeme, next_char))

\* the first character is matched but never consumed
try_parse_from_prefix_lookup_peek_only(T, type, src, i) ==
    IF peek(src, i) = NoChar \/ try_from(T, <<peek(src, i)>>) = ""
    THEN Res("none", i, NoTok, "")
    ELSE Res("ok", i, Token(type, try_from(T, <<peek(src, i)>>), <<peek(src, i)>>), "")

try_parse_from_prefix_lookup(T, type, src, i) ==
    LET c == peek(src, i)
        unwrap(r, operator_type) ==
            IF ~r.sliced
            THEN Res("panic", r.idx, NoTok, "byte index is not a char boundary")
            ELSE IF operator_type = ""
            THEN Res("panic", r.idx, NoTok, "called Result::unwrap() on an Err value")
            ELSE Res("ok", r.idx, Token(type, operator_type, r.lexeme), "")
    IN  IF c = NoChar \/ fields_starting_with(T, <<c>>) = 0
        THEN Res("none", i, NoTok, "")
        ELSE \* r: the lexeme and the cursor when the 'prefix loop is left
             CHOOSE s \in { unwrap(r, try_from(T, r.lexeme)) :
                             r \in {prefix_loop(T, src, i + 1, <<c>>)} } : TRUE

try_parse_operator(src, i) ==
    try_parse_from_prefix_lookup(OperatorType, "Operator", src, i)

try_parse_punctuation(src, i) ==
    try_parse_from_prefix_lookup(PunctuationType, "Punctuation", src, i)

----------------------------------------------------------------------------
(* Identifiers, keywords, value literals: ident.rs *)

KeywordType ==
    { <<Str(e[1]), e[2]>> : e \in
      { <<<<"a", "s", "y", "n", "c">>, "Async">>,
        <<<<"c", "o", "n", "s", "t">>, "Const">>,
        <<<<"f", "u", "n", "c", "t", "i", "o", "n">>, "Function">>,
        <<<<"i", "m", "p", "o", "r", "t">>, "Import">>,
        <<<<"e", "x", "p", "o", "r", "t">>, "Export">>,
        <<<<"n", "e", "w">>, "New">>,
        <<<<"r", "e", "t", "u", "r", "n">>, "Return">>,
        <<<<"s", "u", "p", "e", "r">>, "Super">>,
        <<<<"t", "h", "i", "s">>, "This">> } }

ValueLiteralType ==
    { <<Str(e[1]), e[2]>> : e \in
      { <<<<"t", "r", "u", "e">>, "True">>,
        <<<<"f", "a", "l", "s", "e">>, "False">>,
        <<<<"n", "u", "l", "l">>, "Null">> } }

token_pred(at_start, c) ==
    IF at_start
    THEN is_alphabetic(c) \/ c = Ch["_"] \/ c = Ch["$"]
    ELSE is_alphanumeric(c) \/ c = Ch["_"] \/ c = Ch["$"]

\* the operator table is not consulted
IdentParseResult_no_operator(lexeme) ==
    IF try_from(KeywordType, lexeme) # ""
    THEN Token("Keyword", try_from(KeywordType, lexeme), lexeme)
    ELSE IF try_from(ValueLiteralType, lexeme) # ""
    THEN Token("ValueLiteral", try_from(ValueLiteralType, lexeme), lexeme)
    ELSE Token("Identifier", "", lexeme)

\* the classification that follows the loop of try_parse_identifier
IdentParseResult(lexeme) ==
    LET classify(keyword_type, operator_type, value_type) ==
            IF keyword_type # ""
            THEN Token("Keyword", keyword_type, lexeme)
            ELSE IF operator_type # ""
            THEN Token("Operator", operator_type, lexeme)
            ELSE IF value_type # ""
            THEN Token("ValueLiteral", value_type, lexeme)
            ELSE Token("Identifier", "", lexeme)
    IN  classify(try_from(KeywordType, lexeme), try_from(OperatorType, lexeme),
                 try_from(ValueLiteralType, lexeme))

RECURSIVE try_parse_identifier_loop(_, _, _, _)
try_parse_identifier_loop(src, i, lexeme, at_start) ==
    LET next_char == peek(src, i)
        escaped(e) ==
            IF e.kind # "ok"
            THEN Res(e.kind, e.idx, NoTok, e.msg)
            ELSE IF e.ch = NoChar
            THEN try_parse_identifier_loop(src, e.idx, lexeme, at_start)
            ELSE IF ~token_pred(at_start, e.ch)
            THEN Res("err", e.idx, NoTok, "Invalid escape sequence in identifier")
            ELSE try_parse_identifier_loop(src, e.idx, Append(lexeme, e.ch), FALSE)
    IN  IF next_char # NoChar /\ next_char = Ch["\\"]
        THEN escaped(try_parse_escape(src, i + 1))
        ELSE IF next_char # NoChar /\ token_pred(at_start, next_char)
        THEN try_parse_identifier_loop(src, i + 1, Append(lexeme, next_char), FALSE)
        ELSE IF lexeme = <<>>
        THEN Res("none", i, NoTok, "")
        ELSE Res("ok", i, IdentParseResult(lexeme), "")

try_parse_identifier(src, i) == try_parse_identifier_loop(src, i, <<>>, TRUE)

----------------------------------------------------------------------------
(* Comments: comment.rs *)

\* chars.take_while(|c| !is_line_terminator(*c)): the terminator is consumed
RECURSIVE take_while_not_line_terminator(_, _, _)
take_while_not_line_terminator(src, i, lexeme) ==
    LET c == peek(src, i)
    IN  IF c = NoChar THEN [idx |-> i, lexeme |-> lexeme]
        ELSE IF is_line_terminator(c) THEN [idx |-> i + 1, lexeme |-> lexeme]
        ELSE take_while_not_line_terminator(src, i + 1, Append(lexeme, c))

parse_line_comment(src, i) ==
    LET r == take_while_not_line_terminator(src, i, <<>>)
    IN  Res("ok", r.idx, Token("Comment", "Line", r.lexeme), "")

RECURSIVE parse_block_comment_loop(_, _, _)
parse_block_comment_loop(src, i, lexeme) ==
    LET next_char == peek(src, i)
    IN  IF next_char = NoChar
        THEN Res("ok", i, Token("Comment", "Block", lexeme), "")
        ELSE IF next_char = Ch["*"] /\ peek(src, i + 1) = Ch["/"]
        THEN Res("ok", i + 2, Token("Comment", "Block", lexeme), "")
        ELSE parse_block_comment_loop(src, i + 1, Append(lexeme, next_char))

\* a '/' right after the opening of the comment closes it
parse_block_comment_closed_by_slash(src, i) ==
    IF peek(src, i) = Ch["/"]
    THEN Res("ok", i + 1, Token("Comment", "Block", <<>>), "")
    ELSE parse_block_comment_loop(src, i, <<>>)

parse_block_comment(src, i) == parse_block_comment_loop(src, i, <<>>)

try_parse_comment_with_hashbang(src, i) ==
    IF peek(src, i) = Ch["/"] /\ peek_forward(src, i, 1) = Ch["/"]
    THEN parse_line_comment(src, i + 2)
    ELSE IF peek(src, i) = Ch["/"] /\ peek_forward(src, i, 1) = Ch["*"]
    THEN parse_block_comment(src, i + 2)
    ELSE IF peek(src, i) = Ch["#"] /\ peek_forward(src, i, 1) = Ch["!"]
    THEN Res("ok", take_while_not_line_terminator(src, i + 2, <<>>).idx,
             Token("Comment", "Hashbang",
                   take_while_not_line_terminator(src, i + 2, <<>>).lexeme), "")
    ELSE Res("none", i, NoTok, "")

try_parse_comment(src, i) ==
    IF peek(src, i) = Ch["/"] /\ peek_forward(src, i, 1) = Ch["/"]
    THEN parse_line_comment(src, i + 2)
    ELSE IF peek(src, i) = Ch["/"] /\ peek_forward(src, i, 1) = Ch["*"]
    THEN parse_block_comment(src, i + 2)
    ELSE Res("none", i, NoTok, "")

try_parse_hashbang_comment(src, i) ==
    IF peek(src, i) = Ch["#"] /\ peek_forward(src, i, 1) = Ch["!"]
    THEN LET r == take_while_not_line_terminator(src, i + 2, <<>>)
         IN  Res("ok", r.idx, Token("Comment", "Hashbang", r.lexeme), "")
    ELSE Res("none", i, NoTok, "")

----------------------------------------------------------------------------
(* Regular expression literals: regex.rs *)

RECURSIVE parse_regex_pattern_loop(_, _, _)
parse_regex_pattern_loop(src, i, lexeme) ==
    LET next_char == peek(src, i)
    IN  IF next_char = NoChar
        THEN [kind |-> "err", idx |-> i, lexeme |-> lexeme,
              msg |-> "Unterminated regex literal"]
        ELSE IF next_char = Ch["/"]
        THEN [kind |-> "ok", idx |-> i + 1, lexeme |-> lexeme, msg |-> ""]
        ELSE IF is_line_terminator(next_char)
        THEN [kind |-> "err", idx |-> i + 1, lexeme |-> lexeme,
              msg |-> "Unexpected line terminator while parsing regular expression"]
        ELSE parse_regex_pattern_loop(src, i + 1, Append(lexeme, next_char))

parse_regex_pattern(src, i) == parse_regex_pattern_loop(src, i, <<>>)

\* the flag m is not known
RegexFlags_without_m == { Ch["g"], Ch["i"], Ch["s"], Ch["u"], Ch["y"] }

RegexFlags == { Ch["g"], Ch["i"], Ch["m"], Ch["s"], Ch["u"], Ch["y"] }

RECURSIVE parse_regex_flags_loop(_, _, _)
parse_regex_flags_loop(src, i, lexeme) ==
    LET next_char == peek(src, i)
    IN  IF next_char = NoChar
        THEN [kind |-> "ok", idx |-> i, lexeme |-> lexeme, msg |-> ""]
        ELSE IF next_char \in RegexFlags
        THEN parse_regex_flags_loop(src, i + 1, Append(lexeme, next_char))
        ELSE IF is_whitespace(next_char) \/ next_char = Ch[";"]
        THEN [kind |-> "ok", idx |-> i, lexeme |-> lexeme, msg |-> ""]
        ELSE IF is_alphabetic(next_char)
        THEN [kind |-> "err", idx |-> i, lexeme |-> lexeme,
              msg |-> "Invalid regular expression flag '" \o Display(next_char) \o "'"]
        ELSE [kind |-> "ok", idx |-> i, lexeme |-> lexeme, msg |-> ""]

parse_regex_flags(src, i) == parse_regex_flags_loop(src, i, <<>>)

try_parse_regex_literal(src, i) ==
    LET literal(pattern, flags) ==
            IF pattern.kind # "ok"
            THEN Res("err", pattern.idx, NoTok, pattern.msg)
            ELSE IF flags.kind # "ok"
            THEN Res("err", flags.idx, NoTok, flags.msg)
            ELSE Res("ok", flags.idx,
                     [Token("RegexLiteral", "", pattern.lexeme)
                         EXCEPT !.flags = flags.lexeme], "")
    IN  IF peek(src, i) = Ch["/"]
        THEN literal(parse_regex_pattern(src, i + 1),
                     parse_regex_flags(src, parse_regex_pattern(src, i + 1).idx))
        ELSE Res("none", i, NoTok, "")

----------------------------------------------------------------------------
(* Number literals: num.rs.  A Primitive(f64) is kept exactly, as          *)
(* value * 10^exp; a BigInt has exp = 0.                                   *)

NumberLiteral(kind, lexeme, value, exp) ==
    [Token("NumberLiteral", kind, lexeme) EXCEPT !.value = value, !.exp = exp]

\* Sign::from(Option<char>) as +1 / -1
Sign(c) == IF c = Ch["-"] THEN 0 - 1 ELSE 1

is_numeric_separator(c) == c = Ch["_"]

\* i64::from_str_radix / BigInt::parse_bytes of a lexeme of valid digits
RECURSIVE from_str_radix(_, _)
from_str_radix(lexeme, base) ==
    IF lexeme = <<>> THEN 0
    ELSE from_str_radix(SubSeq(lexeme, 1, Len(lexeme) - 1), base) * base
         + to_digit(lexeme[Len(lexeme)])

\* i64::MAX is 2^63 - 1
I64_BITS == 63

\* the number of bits of the value that a lexeme of valid digits denotes in a
\* base that is a power of two
bit_length(lexeme, base) ==
    LET significant == { k \in DOMAIN lexeme : lexeme[k] # Ch["0"] }
        first == CHOOSE k \in significant : \A l \in significant : k <= l
        width == CHOOSE w \in 1..4 : 2 ^ w = base
        bits(d) == CHOOSE n \in 1..4 : 2 ^ (n - 1) <= d /\ d < 2 ^ n
    IN  IF significant = {} THEN 0
        ELSE (Len(lexeme) - first) * width + bits(to_digit(lexeme[first]))

\* i64::from_str_radix returns Err(PosOverflow) when the value exceeds i64::MAX
overflows_i64(lexeme, base) == bit_length(lexeme, base) > I64_BITS

Dots(lexeme) == { k \in DOMAIN lexeme : lexeme[k] = Ch["."] }

\* the lexeme without its '.'
WithoutDot(lexeme) == SelectSeq(lexeme, LAMBDA c : c # Ch["."])

\* str::parse::<f64> of a lexeme made of digits and '.', first a digit
parse_f64(lexeme) ==
    IF Cardinality(Dots(lexeme)) > 1
    THEN [kind |-> "err", value |-> 0, exp |-> 0]
    ELSE [kind |-> "ok", value |-> from_str_radix(WithoutDot(lexeme), 10),
          exp |-> IF Dots(lexeme) = {} THEN 0
                  ELSE 0 - (Len(lexeme) - (CHOOSE k \in Dots(lexeme) : TRUE))]

RECURSIVE exponent_digits(_, _, _)
exponent_digits(src, i, lexeme) ==
    IF is_ascii_digit(peek(src, i))
    THEN exponent_digits(src, i + 1, Append(lexeme, peek(src, i)))
    ELSE [idx |-> i, lexeme |-> lexeme]

\* the cursor is at the 'e'
parse_scientific_exponent(src, i) ==
    LET exponent(sign, r) ==
            IF r.lexeme = <<>>
            THEN [kind |-> "err", idx |-> r.idx, value |-> 0,
                  msg |-> "Expected a number after 'e' while parsing numeric literal"]
            ELSE [kind |-> "ok", idx |-> r.idx,
                  value |-> sign * from_str_radix(r.lexeme, 10), msg |-> ""]
        signed(c) ==
            IF c = Ch["+"] \/ c = Ch["-"]
            THEN exponent(Sign(c), exponent_digits(src, i + 2, <<>>))
            ELSE exponent(1, exponent_digits(src, i + 1, <<>>))
    IN  signed(peek(src, i + 1))

parse_maybe_big_int(src, i, lexeme, base, sign) ==
    IF peek(src, i) = Ch["n"]
    THEN IF Dots(lexeme) # {}
         THEN Res("err", i + 1, NoTok,
                  "failed to parse '"
                      \o Text((IF sign < 0 THEN <<Ch["-"]>> ELSE <<>>) \o lexeme)
                      \o "' into BigInt")
         ELSE Res("ok", i + 1,
                  NumberLiteral("BigInt",
                      (IF sign < 0 THEN <<Ch["-"]>> ELSE <<>>) \o lexeme \o <<Ch["n"]>>,
                      sign * from_str_radix(lexeme, base), 0), "")
    ELSE IF base = 10
    THEN LET primitive(f) ==
                 IF f.kind # "ok"
                 THEN Res("err", i, NoTok, "invalid float literal")
                 ELSE Res("ok", i,
                          NumberLiteral("Primitive", lexeme, sign * f.value, f.exp), "")
         IN  primitive(parse_f64(lexeme))
    ELSE IF overflows_i64(lexeme, base)
    THEN Res("err", i, NoTok, "number too large to fit in target type")
    ELSE Res("ok", i,
             NumberLiteral("Primitive", lexeme, sign * from_str_radix(lexeme, base), 0), "")

RECURSIVE parse_base_10_loop(_, _, _)
parse_base_10_loop(src, i, lexeme) ==
    LET c == peek(src, i)
    IN  IF c # NoChar /\ is_numeric_separator(c)
        THEN parse_base_10_loop(src, i + 1, lexeme)
        ELSE IF is_ascii_digit(c) \/ c = Ch["."]
        THEN parse_base_10_loop(src, i + 1, Append(lexeme, c))
        ELSE [idx |-> i, lexeme |-> lexeme]

parse_base_10(src, i, sign) ==
    LET r == parse_base_10_loop(src, i, <<>>)
        scientific(exponent, f) ==
            IF exponent.kind # "ok"
            THEN Res("err", exponent.idx, NoTok, exponent.msg)
            ELSE IF f.kind # "ok"
            THEN Res("err", exponent.idx, NoTok, "invalid float literal")
            ELSE Res("ok", exponent.idx,
                     NumberLiteral("Primitive", r.lexeme, f.value,
                                   f.exp + exponent.value), "")
    IN  IF peek(src, r.idx) = Ch["e"]
        THEN scientific(parse_scientific_exponent(src, r.idx), parse_f64(r.lexeme))
        ELSE parse_maybe_big_int(src, r.idx, r.lexeme, 10, sign)

RECURSIVE consume_while(_, _, _, _)
consume_while(src, i, digits, lexeme) ==
    LET c == peek(src, i)
    IN  IF c # NoChar /\ is_numeric_separator(c)
        THEN consume_while(src, i + 1, digits, lexeme)
        ELSE IF c \in digits
        THEN consume_while(src, i + 1, digits, Append(lexeme, c))
        ELSE [idx |-> i, lexeme |-> lexeme]

HexDigits == { c \in 48..102 : is_hex_digit(c) }

BinDigits == { Ch["0"], Ch["1"] }

OctDigits == { c \in 48..57 : is_oct_digit(c) }

parse_hex_number(src, i, sign) ==
    LET r == consume_while(src, i, HexDigits, <<>>)
    IN  IF r.lexeme = <<>>
        THEN Res("err", r.idx, NoTok,
                 "Expected a valid hexadecimal digit after '0x' while parsing numeric literal")
        ELSE parse_maybe_big_int(src, r.idx, r.lexeme, 16, sign)

parse_bin_number(src, i, sign) ==
    LET r == consume_while(src, i, BinDigits, <<>>)
    IN  IF r.lexeme = <<>>
        THEN Res("err", r.idx, NoTok,
                 "Expected a valid binary digit after '0b' while parsing numeric literal")
        ELSE parse_maybe_big_int(src, r.idx, r.lexeme, 2, sign)

\* the digits 8 and 9 are taken as octal digits
parse_oct_number_any_digit(src, i, sign) ==
    LET r == consume_while(src, i, 48..57, <<>>)
    IN  IF r.lexeme = <<>>
        THEN Res("err", r.idx, NoTok,
                 "Expected a valid octal digit while parsing octal-formatted numeric literal")
        ELSE parse_maybe_big_int(src, r.idx, r.lexeme, 8, sign)

parse_oct_number(src, i, sign) ==
    LET r == consume_while(src, i, OctDigits, <<>>)
    IN  IF r.lexeme = <<>>
        THEN Res("err", r.idx, NoTok,
                 "Expected a valid octal digit while parsing octal-formatted numeric literal")
        ELSE parse_maybe_big_int(src, r.idx, r.lexeme, 8, sign)

\* the cursor is at the leading '0'
parse_leading_zero_number(src, i, sign) ==
    LET c == peek(src, i + 1)
    IN  IF c = Ch["x"] \/ c = Ch["X"] THEN parse_hex_number(src, i + 2, sign)
        ELSE IF c = Ch["b"] \/ c = Ch["B"] THEN parse_bin_number(src, i + 2, sign)
        ELSE IF c = Ch["o"] \/ c = Ch["O"] THEN parse_oct_number(src, i + 2, sign)
        ELSE IF c = Ch["_"]
        THEN Res("err", i + 1, NoTok, "Numeric separator can not be used after leading 0")
        ELSE IF is_ascii_digit(c) THEN parse_oct_number(src, i + 1, sign)
        ELSE Res("ok", i + 1, NumberLiteral("Primitive", <<Ch["0"]>>, 0, 0), "")

try_parse_number(src, i) ==
    LET signed == peek(src, i) = Ch["+"] \/ peek(src, i) = Ch["-"]
        sign == IF signed THEN Sign(peek(src, i)) ELSE 1
        j == IF signed THEN i + 1 ELSE i
        c == peek(src, j)
    IN  IF is_ascii_digit(c) /\ c # Ch["0"] THEN parse_base_10(src, j, sign)
        ELSE IF is_ascii_digit(c) THEN parse_leading_zero_number(src, j, sign)
        ELSE Res("none", j, NoTok, "")

----------------------------------------------------------------------------
(* The tokenizer driver: one iteration of the loop of tokenize, the        *)
(* sub-lexers tried in priority order.  The result names the branch that   *)
(* ended the iteration and the state it leaves.                            *)

Step(branch, st, idx, toks, depth, msg) ==
    [branch |-> branch, status |-> st, idx |-> idx, tokens |-> toks,
     depth |-> depth, msg |-> msg]

\* Err(..)? of a sub-lexer: the call returns the diagnostic, the token
\* vector is dropped, the cursor stays where the sub-lexer left it
Fail(branch, r, depth) == Step(branch, r.kind, r.idx, <<>>, depth, r.msg)

\* tokens pushed for (string, Option<expr_open>)
TemplateTokens(t) ==
    IF t.expr_open THEN <<t.string, TemplateLiteralExprOpen>> ELSE <<t.string>>

\* lookahead of the driver before it tries the regex lexer
regex_plausible(src, i) ==
    /\ peek(src, i) = Ch["/"]
    /\ peek_forward(src, i, 1) # NoChar
    /\ peek_forward(src, i, 1) \notin { Ch["/"], Ch["*"], Ch["["] }
    /\ ~is_line_terminator(peek_forward(src, i, 1))

\* lookahead of the driver before it tries the number lexer
number_plausible(src, i) ==
    \/ is_ascii_digit(peek(src, i))
    \/ /\ peek(src, i) \in { Ch["+"], Ch["-"] }
       /\ is_ascii_digit(peek_forward(src, i, 1))

\* a sub-lexer claimed the position: its token is pushed, or its error
\* ends the call
Push(branch, r, toks, depth) ==
    IF r.kind = "ok"
    THEN Step(branch, "running", r.idx, Append(toks, r.tok), depth, "")
    ELSE Fail(branch, r, depth)

\* branches (8) .. (12) and the fall-through, from cursor i
tokenize_tail(src, i, toks, depth) ==
    IF regex_plausible(src, i)
    THEN Push("regex", try_parse_regex_literal(src, i), toks, depth)
    ELSE IF try_parse_string(src, i).kind # "none"
    THEN Push("string", try_parse_string(src, i), toks, depth)
    ELSE IF number_plausible(src, i)
    THEN Push("number", try_parse_number(src, i), toks, depth)
    ELSE IF try_parse_punctuation(src, i).kind # "none"
    THEN Push("punctuation", try_parse_punctuation(src, i), toks, depth)
    ELSE IF try_parse_operator(src, i).kind # "none"
    THEN Push("operator", try_parse_operator(src, i), toks, depth)
    ELSE Step("unexpected", "err", i, <<>>, depth, "Unexpected character")

\* branch (7), tried from cursor j only while depth > 0; ee is the result
\* of the expression-close lexer there
branch_template_expr_end(ee, src, j, toks, depth) ==
    IF depth > 0 /\ ee.kind # "none"
    THEN IF ee.kind = "ok"
         THEN Step("template_expr_end", "running", ee.idx,
                   toks \o <<TemplateLiteralExprClose>> \o TemplateTokens(ee),
                   IF ee.expr_open THEN depth ELSE depth - 1, "")
         ELSE Fail("template_expr_end", ee, depth)
    ELSE tokenize_tail(src, j, toks, depth)

\* branch (6); id is the result of the identifier lexer, the later branches
\* go on from where it left the cursor
branch_identifier(id, src, toks, depth) ==
    IF id.kind # "none"
    THEN Push("identifier", id, toks, depth)
    ELSE \* j is the cursor as try_parse_identifier left it
         CHOOSE s \in { branch_template_expr_end(
                             try_parse_template_literal_expr_end(src, j),
                             src, j, toks, depth) : j \in {id.idx} } : TRUE

\* branch (5); ts is the result of the template-start lexer at cursor i
branch_template_start(ts, src, i, toks, depth) ==
    IF ts.kind # "none"
    THEN IF ts.kind = "ok"
         THEN Step("template_start", "running", ts.idx, toks \o TemplateTokens(ts),
                   IF ts.expr_open THEN depth + 1 ELSE depth, "")
         ELSE Fail("template_start", ts, depth)
    ELSE branch_identifier(try_parse_identifier(src, i), src, toks, depth)

tokenize_step(src, i, toks, depth) ==
    IF peek(src, i) = NoChar
    THEN IF depth = 0
         THEN Step("eof", "ok", i, toks, depth, "")
         ELSE Step("eof", "err", i, <<>>, depth,
                   "Unexpected EOF while parsing template literal")
    ELSE IF toks = <<>> /\ try_parse_hashbang_comment(src, i).kind = "ok"
    THEN Push("hashbang", try_parse_hashbang_comment(src, i), toks, depth)
    ELSE IF is_whitespace(peek(src, i))
    THEN Step("whitespace", "running", i + 1, toks, depth, "")
    ELSE IF try_parse_comment(src, i).kind = "ok"
    THEN Push("comment", try_parse_comment(src, i), toks, depth)
    ELSE branch_template_start(try_parse_template_literal_start(src, i),
                               src, i, toks, depth)

----------------------------------------------------------------------------
(* Sources *)

\* all sequences over alphabet A of length at most n
SeqsUpTo(A, n) == UNION { [1..k -> A] : k \in 0..n }

MaxTemplateLen == 5

MaxGeneralLen == 3

MaxInterp == 2

\* U+00E9, a letter outside ASCII (two bytes in UTF-8)
E_ACUTE == 233

TemplateAlphabet == { BACKTICK, Ch["$"], Ch["{"], Ch["}"], Ch["x"] }

GeneralAlphabet ==
    { Ch["x"], Ch[" "], Ch["\""], Ch["\\"], 10, Ch["/"], Ch[";"], Ch["="],
      Ch["1"], Ch["#"], Ch["!"], Ch["*"], E_ACUTE }

\* a template literal with k interpolations of one identifier each:
\* text (expr text)^k between the delimiters
InterpolationTexts ==
    { <<>>, Str(<<"h", "i", " ">>), Str(<<" ", "t", "h", "e", "r", "e">>), Str(<<"$">>) }

InterpolationIdents == { Str(<<"x">>), Str(<<"i", "d">>) }

RECURSIVE InterpolationBodies(_)
InterpolationBodies(k) ==
    IF k = 0 THEN InterpolationTexts
    ELSE { b \o Str(<<"$", "{">>) \o id \o Str(<<"}">>) \o t :
             b \in InterpolationBodies(k - 1), id \in InterpolationIdents,
             t \in InterpolationTexts }

InterpolationLiterals(k) ==
    { <<BACKTICK>> \o b \o <<BACKTICK>> : b \in InterpolationBodies(k) }

InterpolationSources == UNION { InterpolationLiterals(k) : k \in 0..MaxInterp }

\* reserved words and plain names
Words ==
    { Str(w) : w \in
      { <<"c", "o", "n", "s", "t">>, <<"n", "e", "w">>, <<"t", "h", "i", "s">>,
        <<"t", "y", "p", "e", "o", "f">>,
        <<"i", "n", "s", "t", "a", "n", "c", "e", "o", "f">>, <<"i", "n">>,
        <<"v", "o", "i", "d">>, <<"a", "w", "a", "i", "t">>,
        <<"y", "i", "e", "l", "d">>, <<"t", "r", "u", "e">>,
        <<"f", "a", "l", "s", "e">>, <<"n", "u", "l", "l">>, <<"i", "n", "s">>,
        <<"n", "u", "l">>, <<"_", "1">>, <<"$">>, <<"a">>, <<"b">>} }

WordSources == Words \cup { v \o Str(<<" ">>) \o w : v \in Words, w \in Words }

VariableDeclaration ==
    Str(<<"c", "o", "n", "s", "t", " ", "a", " ", "=", " ", "b", ";">>)

\* programs of the tests and of the documentation
Samples ==
    { VariableDeclaration,
      Str(<<"=", "=", "=">>),
      <<BACKTICK>> \o Str(<<"$", "{">>) \o <<BACKTICK>> \o Str(<<"$", "{", "x", "}">>)
          \o <<BACKTICK>> \o Str(<<"}">>) \o <<BACKTICK>>,
      <<BACKTICK>> \o Str(<<"$", "{", "{", "}", "}">>) \o <<BACKTICK>>,
      Str(<<"\\", "u", "0", "0", "6", "9", "n", " ", "a">>),
      Str(<<"x", " ", "=", " ", "\"", "a">>) \o <<10>> \o Str(<<"b", "\"", ";">>),
      Str(<<"{", "}">>) \o <<E_ACUTE>>,
      Str(<<"f", "(">>) \o <<E_ACUTE>> \o Str(<<")">>) }

Sources ==
    SeqsUpTo(TemplateAlphabet, MaxTemplateLen)
        \cup SeqsUpTo(GeneralAlphabet, MaxGeneralLen)
        \cup InterpolationSources
        \cup WordSources
        \cup Samples

----------------------------------------------------------------------------
(* tokenize as a state machine: one action per branch of the loop *)

\* the shortest run of hexadecimal digits whose value can leave u32
OverflowDigits == 32 \div 4 + 1

\* the builds to tell apart on a source: they differ only in the u32
\* arithmetic of a braced escape, which overflows from the ninth digit on,
\* so on a source without such a run one build stands for both
Builds(src) ==
    IF \E p \in 1..(Len(src) - OverflowDigits + 1) :
           \A k \in p..(p + OverflowDigits - 1) : is_hex_digit(src[k])
    THEN BOOLEAN
    ELSE {TRUE}

\* the calls of next() that a step makes take the cursor to index i
\* the previous position is the one before the last character consumed
\* (calls of next() at the end of the input are not followed here)
Move(i) ==
    /\ index' = i
    /\ \E pos \in { advance(source, p, i) : p \in {Position(line, column, index)} } :
           line' = pos.line /\ column' = pos.column
    /\ \E pos \in { advance(source, p, i - 1) : p \in {Position(line, column, index)} } :
           previous_position' = IF i > index THEN pos ELSE previous_position

Init ==
    /\ source \in Sources
    /\ overflow_checks \in Builds(source)
    /\ index = StartPosition.index
    /\ line = StartPosition.line
    /\ column = StartPosition.column
    /\ tokens = <<>>
    /\ template_depth = 0
    /\ status = "running"
    /\ error = ""
    /\ previous_position = NoPosition
    /\ peeked = NoChar
    /\ lexer = "tokenize"

Iterate(branch) ==
    /\ lexer = "tokenize"
    /\ \E s \in {tokenize_step(source, index, tokens, template_depth)} :
           /\ s.branch = branch
           /\ Move(s.idx)
           /\ tokens' = s.tokens
           /\ template_depth' = s.depth
           /\ status' = s.status
           /\ error' = s.msg
    /\ UNCHANGED <<source, lexer, overflow_checks, peeked>>

EndOfInput ==
    /\ status = "running"
    /\ Iterate("eof")

Hashbang ==
    /\ status = "running"
    /\ Iterate("hashbang")

Whitespace ==
    /\ status = "running"
    /\ Iterate("whitespace")

Comment ==
    /\ status = "running"
    /\ Iterate("comment")

TemplateStart ==
    /\ status = "running"
    /\ Iterate("template_start")

Identifier ==
    /\ status = "running"
    /\ Iterate("identifier")

TemplateExprEnd ==
    /\ status = "running"
    /\ Iterate("template_expr_end")

Regex ==
    /\ status = "running"
    /\ Iterate("regex")

String ==
    /\ status = "running"
    /\ Iterate("string")

Number ==
    /\ status = "running"
    /\ Iterate("number")

Punctuation ==
    /\ status = "running"
    /\ Iterate("punctuation")

Operator ==
    /\ status = "running"
    /\ Iterate("operator")

Unexpected ==
    /\ status = "running"
    /\ Iterate("unexpected")

Next ==
    \/ EndOfInput
    \/ Hashbang
    \/ Whitespace
    \/ Comment
    \/ TemplateStart
    \/ Identifier
    \/ TemplateExprEnd
    \/ Regex
    \/ String
    \/ Number
    \/ Punctuation
    \/ Operator
    \/ Unexpected

Spec == Init /\ [][Next]_vars

\* the loop of tokenize runs without suspension until the call returns
\* one iteration of the loop of tokenize, whichever branch it takes
Loop ==
    /\ status = "running"
    /\ lexer = "tokenize"
    /\ \E s \in {tokenize_step(source, index, tokens, template_depth)} :
           /\ Move(s.idx)
           /\ tokens' = s.tokens
           /\ template_depth' = s.depth
           /\ status' = s.status
           /\ error' = s.msg
    /\ UNCHANGED <<source, lexer, overflow_checks, peeked>>

\* tokenize is a sequential loop: while the call has not returned, the
\* next iteration is eventually executed
FairSpec == Spec /\ WF_vars(Loop)

TypeOK ==
    /\ index \in 0..Len(source)
    /\ template_depth \in Nat
    /\ status \in {"running", "ok", "err", "none", "panic"}
    /\ overflow_checks \in BOOLEAN
    /\ line \in 1..(Len(source) + 1)
    /\ column \in 1..(Len(source) + 1)
    /\ PreviousPosition(previous_position).index \in 0..index
    /\ peeked \in {NoChar} \cup { source[k] : k \in 1..Len(source) }

----------------------------------------------------------------------------
(* A sub-lexer called on its own, as its unit tests call it: the result    *)
(* is left in status, index, tokens and error.                             *)

MaxPrefixLen == 3

MaxStringLen == 5

PrefixAlphabet ==
    { Ch["="], Ch["!"], Ch["."], Ch[">"], Ch["i"], Ch["n"], Ch["s"], Ch[";"],
      Ch["x"], E_ACUTE }

PrefixSamples ==
    { Str(<<">", ">", ">", "=">>), Str(<<".", ".", ".">>),
      Str(<<"i", "n", "s", "t", "a", "n", "c", "e", "o", "f">>),
      Str(<<"t", "y", "p", "e", "o", "f", " ", "x">>),
      Str(<<"?", "?", "=", "?">>), Str(<<"}", ";">>), Str(<<"~", "~">>) }

PrefixSources == SeqsUpTo(PrefixAlphabet, MaxPrefixLen) \cup PrefixSamples

StringAlphabet == { APOSTROPHE, Ch["\""], Ch["\\"], 10, Ch["n"], Ch["a"] }

StringSources == SeqsUpTo(StringAlphabet, MaxStringLen)

Call(r) ==
    /\ Move(r.idx)
    /\ status' = r.kind
    /\ tokens' = IF r.kind = "ok" THEN <<r.tok>> ELSE <<>>
    /\ error' = r.msg
    /\ UNCHANGED <<source, template_depth, lexer, overflow_checks, peeked>>

InitCall(entry, sources) ==
    /\ source \in sources
    /\ overflow_checks \in Builds(source)
    /\ lexer \in entry
    /\ index = StartPosition.index
    /\ line = StartPosition.line
    /\ column = StartPosition.column
    /\ tokens = <<>>
    /\ template_depth = 0
    /\ status = "running"
    /\ error = ""
    /\ previous_position = NoPosition
    /\ peeked = NoChar

CallOperator ==
    /\ lexer = "operator"
    /\ status = "running"
    /\ Call(try_parse_operator(source, index))

CallPunctuation ==
    /\ lexer = "punctuation"
    /\ status = "running"
    /\ Call(try_parse_punctuation(source, index))

CallString ==
    /\ lexer = "string"
    /\ status = "running"
    /\ Call(try_parse_string(source, index))

InitPrefix == InitCall({"operator", "punctuation"}, PrefixSources)

NextPrefix == CallOperator \/ CallPunctuation

SpecPrefix == InitPrefix /\ [][NextPrefix]_vars

InitString == InitCall({"string"}, StringSources)

NextString == CallString

SpecString == InitString /\ [][NextString]_vars

(* The regex lexer called on its own *)

MaxRegexLen == 5

RegexAlphabet == { Ch["/"], Ch["\\"], 10, Ch["g"], Ch["m"], Ch["z"], Ch[";"] }

RegexSamples ==
    { Str(<<"/", "f", "o", "o", "/", "g", "m">>),
      Str(<<"/", "f", "o", "o", "/", "g", "z">>),
      Str(<<"/", "f", "o", "o", "/", "g", " ", "x">>),
      Str(<<"/", "a", "\\", "/", "b", "/">>) }

RegexSources == SeqsUpTo(RegexAlphabet, MaxRegexLen) \cup RegexSamples

CallRegex ==
    /\ lexer = "regex"
    /\ status = "running"
    /\ Call(try_parse_regex_literal(source, index))

InitRegex == InitCall({"regex"}, RegexSources)

NextRegex == CallRegex

SpecRegex == InitRegex /\ [][NextRegex]_vars

(* The number lexer called on its own *)

MaxNumberLen == 4

NumberAlphabet ==
    { Ch["0"], Ch["1"], Ch["8"], Ch["F"], Ch["x"], Ch["b"], Ch["n"], Ch["."],
      Ch["e"], Ch["E"], Ch["-"], Ch["+"] }

\* n copies of the character c
Repeat(c, n) == [k \in 1..n |-> c]

NumberSamples ==
    { Str(<<"0", "x", "F", "F", "n">>), Str(<<"-", "0", "x", "F", "F">>),
      Str(<<"-", "0", "x", "F", "F", "n">>), Str(<<"0", "X", "1", "f">>),
      Str(<<"0", "o", "1", "7">>), Str(<<"0", "O", "1", "7", "n">>),
      Str(<<"0", "B", "1", "1">>), Str(<<"0", "1", "7">>),
      Str(<<"-", "0", "1", "7", "n">>), Str(<<"1", "_", "0", "0", "0">>),
      Str(<<"-", "1", ".", "5", "n">>), Str(<<"1", ".", "5", "e", "-", "2">>),
      Str(<<"-", "1", ".", "5", "e", "2">>), Str(<<"1", "e", "1", "0", "n">>),
      Str(<<"-", "1", "2", "3", "n">>), Str(<<"1", "2", ";">>),
      Str(<<"0", "x">>) \o Repeat(Ch["F"], 16),
      Str(<<"0", "o", "1">>) \o Repeat(Ch["7"], 21),
      Str(<<"1", ".", "2", ".", "3">>), Str(<<"1", ".", "2", ".", "3", "e", "1">>),
      Str(<<"1", "e", "1", "_", "0">>), Str(<<"1", "_", "0", "e", "1">>),
      Str(<<"1", ".", "5", "_", "5">>), Str(<<"1", "_", "_", "0", "_">>),
      Str(<<"0", "x", "1", "_", "F">>), Str(<<"0", "x", "_", "F">>),
      Str(<<"0", "b", "1", "_", "0">>), Str(<<"0", "o", "1", "_", "7">>),
      Str(<<"0", "1", "_", "7">>), Str(<<"0", "_", "1">>), Str(<<"-", "0", "_", "1">>),
      Str(<<"0", "b", "2">>), Str(<<"0", "o", "8">>), Str(<<"0", "x", "G">>),
      Str(<<"0", "8">>), Str(<<"0", "9", "1">>), Str(<<"0", "B", "2">>),
      Str(<<"0", "O", "8">>), Str(<<"0", "X", "g">>), Str(<<"0", "o">>),
      Str(<<"0", "1", "8">>), Str(<<"0", "b", "1", "2">>) }

NumberSources == SeqsUpTo(NumberAlphabet, MaxNumberLen) \cup NumberSamples

CallNumber ==
    /\ lexer = "number"
    /\ status = "running"
    /\ Call(try_parse_number(source, index))

InitNumber == InitCall({"number"}, NumberSources)

NextNumber == CallNumber

SpecNumber == InitNumber /\ [][NextNumber]_vars

(* The escape parser called on its own, the cursor after the backslash *)

MaxEscapeDigits == 9

EscapeDigits == { Ch["0"], Ch["1"], Ch["F"] }

\* the braced escape u{digits}
Braced(digits) == Str(<<"u", "{">>) \o digits \o Str(<<"}">>)

EscapeSamples ==
    { Braced(Str(<<"1", "F", "6", "0", "0">>)),
      Braced(Str(<<"1", "f", "6", "0", "0", "0">>)),
      Braced(Str(<<"1", "1", "0", "0", "0", "0">>)),
      Braced(Str(<<"D", "8", "0", "0">>)),
      Braced(Str(<<"1", "f", "6", "G", "0">>)),
      Braced(Repeat(Ch["0"], 8) \o Str(<<"4", "1">>)),
      Str(<<"u", "0", "0", "4", "1">>), Str(<<"x", "4", "1">>),
      Str(<<"n">>), <<10>>, Str(<<"1", "0", "1">>), Str(<<"u", "{", "4", "1">>),
      Str(<<"u", "{", "}">>), Str(<<"u", "{", "}", "a">>), Str(<<"u", "{">>),
      Str(<<"u", "1", "f", "6", "0", "0">>), Str(<<"u", "F", "F", "G">>),
      Str(<<"u", "{", "4", "1", "}", "0">>) }

MaxOctalLen == 4

MaxFixedLen == 5

\* hex digits, a letter that is no hex digit, a brace
FixedAlphabet == { Ch["0"], Ch["4"], Ch["F"], Ch["G"], Ch["{"] }

\* octal digits, a decimal digit that is not octal, a letter
OctalAlphabet == { Ch["0"], Ch["1"], Ch["3"], Ch["7"], Ch["9"], Ch["a"] }

EscapeSources ==
    { Braced(d) : d \in SeqsUpTo(EscapeDigits, MaxEscapeDigits) }
        \cup SeqsUpTo(OctalAlphabet, MaxOctalLen)
        \cup { <<Ch["u"]>> \o d : d \in SeqsUpTo(FixedAlphabet, MaxFixedLen) }
        \cup EscapeSamples

\* Result<Option<char>> as a result record: the token holds the character
Escaped(e) ==
    Res(e.kind, e.idx,
        IF e.kind # "ok" THEN NoTok
        ELSE Token("Escape", "", IF e.ch = NoChar THEN <<>> ELSE <<e.ch>>),
        e.msg)

CallEscape ==
    /\ lexer = "escape"
    /\ status = "running"
    /\ Call(Escaped(try_parse_escape(source, index)))

InitEscape == InitCall({"escape"}, EscapeSources)

NextEscape == CallEscape

SpecEscape == InitEscape /\ [][NextEscape]_vars

(* The identifier lexer called on its own *)

MaxIdentLen == 5

IdentAlphabet ==
    { Ch["a"], Ch["1"], Ch["4"], Ch["6"], Ch["\\"], Ch["x"], Ch["n"], 10, Ch[";"] }

IdentSamples ==
    { Str(<<"\\", "u", "0", "0", "4", "1", "B", "C">>),
      Str(<<"A", "\\", "u", "0", "0", "4", "2", "C">>),
      Str(<<"A", "B", "\\", "u", "0", "0", "4", "3", "\\", "n">>),
      Str(<<"A", "B", "\\", "u", "0", "0", "4", "3", " ">>),
      Str(<<"\\", "u", "0", "0", "3", "1">>),
      Str(<<"a", "\\", "u", "0", "0", "3", "1">>),
      Str(<<"a", "\\", "u", "0", "0", "G">>),
      Str(<<"_", "h", "e", "l", "l", "o", "1", "2", "3">>) }

IdentSources == SeqsUpTo(IdentAlphabet, MaxIdentLen) \cup IdentSamples

CallIdentifier ==
    /\ lexer = "identifier"
    /\ status = "running"
    /\ Call(try_parse_identifier(source, index))

InitIdentifier == InitCall({"identifier"}, IdentSources)

NextIdentifier == CallIdentifier

SpecIdentifier == InitIdentifier /\ [][NextIdentifier]_vars

(* The iterator stepped on its own *)

MaxCursorLen == 5

CursorAlphabet == { 10, 13, Ch["a"], E_ACUTE }

CursorSources == SeqsUpTo(CursorAlphabet, MaxCursorLen)

\* one call of next(): tokens collects the characters returned, status tells
\* whether the last call returned one
CallNext ==
    /\ lexer \in {"next", "code_iter"}
    /\ \E r \in {next(source, Position(line, column, index))} :
           /\ previous_position' = r.previous
           /\ index' = r.position.index
           /\ line' = r.position.line
           /\ column' = r.position.column
           /\ status' = IF r.item = NoChar THEN "none" ELSE "ok"
           /\ tokens' = IF r.item = NoChar THEN tokens
                        ELSE Append(tokens, Token("Char", "", <<r.item>>))
    /\ UNCHANGED <<source, template_depth, error, lexer, overflow_checks, peeked>>

InitCursor == InitCall({"next"}, CursorSources)

NextCursor == CallNext

SpecCursor == InitCursor /\ [][NextCursor]_vars

(* The comment lexer on its own *)

MaxCommentLen == 5

CommentAlphabet == { Ch["/"], Ch["*"], 10, Ch["a"] }

CommentSamples ==
    { Str(<<"/", "*", " ", "a", " ", "*", "/", ";">>),
      Str(<<"/", "*", "*", "*", "/", "/">>),
      <<Ch["/"], Ch["*"], Ch["a"], 13, 10, Ch["*"], Ch["a"], Ch["/"]>>,
      Str(<<"/", "/", "a", "*", "/">>) }

CommentSources == SeqsUpTo(CommentAlphabet, MaxCommentLen) \cup CommentSamples

CallComment ==
    /\ lexer = "comment"
    /\ status = "running"
    /\ Call(try_parse_comment(source, index))

InitComment == InitCall({"comment"}, CommentSources)

NextComment == CallComment

SpecComment == InitComment /\ [][NextComment]_vars

(* The iterator with its lookahead: next, peek and peek_forward in any order *)

MaxPeek == 2

\* CodeIter::peek (&self)
CallPeek ==
    /\ lexer = "code_iter"
    /\ peeked' = peek(source, index)
    /\ UNCHANGED <<source, index, line, column, tokens, template_depth, status,
                   error, lexer, overflow_checks, previous_position>>

\* CodeIter::peek_forward (&self, n)
CallPeekForward ==
    /\ lexer = "code_iter"
    /\ \E n \in 0..MaxPeek : peeked' = peek_forward(source, index, n)
    /\ UNCHANGED <<source, index, line, column, tokens, template_depth, status,
                   error, lexer, overflow_checks, previous_position>>

InitCodeIter == InitCall({"code_iter"}, CursorSources)

NextCodeIter == CallNext \/ CallPeek \/ CallPeekForward

SpecCodeIter == InitCodeIter /\ [][NextCodeIter]_vars

(* ---- the template text lexer on its own ---- *)

MaxTemplateTextLen == 5

\* the two terminators, the escape character, a line terminator, a letter
TemplateTextAlphabet == { BACKTICK, Ch["$"], Ch["{"], Ch["\\"], 10, Ch["a"] }

TemplateTextSamples ==
    { Str(<<"h", "i", " ", "$", "{">>),
      <<Ch["a"], 13, 10, Ch["b"], BACKTICK>>,
      <<Ch["\\"], Ch["x"], Ch["4"], Ch["1"], BACKTICK>>,
      <<Ch["\\"], Ch["x"], Ch["4"], BACKTICK>>,
      <<Ch["\\"], Ch["1"], Ch["0"], Ch["1"], Ch["$"], Ch["{"]>>,
      <<Ch["\\"], Ch["u"], Ch["{"], Ch["4"], Ch["1"], Ch["}"], Ch["$"], Ch["{"]>>,
      <<Ch["\\"], Ch["u"], Ch["{"], Ch["4"], Ch["1"], BACKTICK>>,
      <<Ch["\\"], Ch["n"], Ch["\\"], BACKTICK, Ch["\\"], Ch["$"], Ch["{"], Ch["}"], BACKTICK>> }

TemplateTextSources ==
    SeqsUpTo(TemplateTextAlphabet, MaxTemplateTextLen) \cup TemplateTextSamples

\* parse_template_literal_string, entered just after the opening backtick
CallTemplate ==
    /\ lexer = "template"
    /\ status = "running"
    /\ \E t \in {parse_template_literal_string(source, index)} :
           /\ Move(t.idx)
           /\ status' = t.kind
           /\ tokens' = IF t.kind = "ok" THEN TemplateTokens(t) ELSE <<>>
           /\ error' = t.msg
    /\ UNCHANGED <<source, template_depth, lexer, overflow_checks, peeked>>

InitTemplate == InitCall({"template"}, TemplateTextSources)

NextTemplate == CallTemplate

SpecTemplate == InitTemplate /\ [][NextTemplate]_vars

----------------------------------------------------------------------------
(* Properties of tokenize *)

Count(type, toks) == Cardinality({ k \in DOMAIN toks : toks[k].type = type })

EofInTemplate == "Unexpected EOF while parsing template literal"

(* C1: while a tokenize call runs and when it has succeeded, template_depth *)
(* is the number of TemplateExprOpen tokens emitted so far minus the number *)
(* of TemplateExprClose tokens emitted so far (so it is 0 before the first  *)
(* token), it is never negative, and a segment marked complete never opens  *)
(* an expression: every TemplateExprOpen follows an incomplete segment.     *)
C1_TemplateDepth ==
    (lexer = "tokenize" /\ status \in {"running", "ok"}) =>
        /\ template_depth =
               Count("TemplateExprOpen", tokens) - Count("TemplateExprClose", tokens)
        /\ template_depth >= 0
        /\ \A k \in DOMAIN tokens :
               tokens[k].type = "TemplateExprOpen" =>
                   /\ k > 1
                   /\ tokens[k - 1].type = "TemplateString"
                   /\ ~tokens[k - 1].complete

\* a complete segment and an expression close have been emitted inside an
\* expression that is still open
C1_Witness ==
    /\ lexer = "tokenize"
    /\ status = "running"
    /\ template_depth = 1
    /\ Count("TemplateExprClose", tokens) >= 1
    /\ \E k \in DOMAIN tokens : tokens[k].type = "TemplateString" /\ tokens[k].complete

(* C2: tokenize succeeds only by the end-of-input check, with the cursor at *)
(* the end of the source and template_depth = 0, returning the tokens it    *)
(* has; when the end-of-input check is met with template_depth > 0 the call *)
(* fails with "Unexpected EOF while parsing template literal" and returns   *)
(* no tokens.                                                               *)
C2_EndOfInput ==
    [][(lexer = "tokenize" /\ status = "running") =>
          /\ status' = "ok" =>
                 /\ index = Len(source)
                 /\ template_depth = 0
                 /\ tokens' = tokens
                 /\ index' = index
          /\ (index = Len(source) /\ template_depth > 0) =>
                 /\ status' = "err"
                 /\ error' = EofInTemplate
                 /\ tokens' = <<>>
          /\ (index = Len(source) /\ template_depth = 0) => status' = "ok"]_vars

\* the source ended right after an expression was opened
C2_Witness ==
    /\ lexer = "tokenize"
    /\ status = "err"
    /\ error = EofInTemplate
    /\ template_depth > 0
    /\ index = Len(source)
    /\ source[Len(source)] = Ch["{"]
    /\ tokens = <<>>

CloseBrace == Token("Punctuation", "CloseBrace", Str(<<"}">>))

(* C3: when the driver meets '}' at a token start with template_depth > 0   *)
(* it emits TemplateExprClose and then the template text that follows (or   *)
(* fails in that text), never Punctuation(CloseBrace); with                 *)
(* template_depth = 0 the '}' is emitted as Punctuation(CloseBrace), one    *)
(* character is consumed and the template lexer is not entered.             *)
C3_CloseBrace ==
    [][(lexer = "tokenize" /\ status = "running" /\ peek(source, index) = Ch["}"]) =>
          IF template_depth > 0
          THEN /\ status' \in {"running", "err"}
               /\ status' = "running" =>
                      /\ Len(tokens') >= Len(tokens) + 2
                      /\ SubSeq(tokens', 1, Len(tokens)) = tokens
                      /\ tokens'[Len(tokens) + 1] = TemplateLiteralExprClose
                      /\ tokens'[Len(tokens) + 2].type = "TemplateString"
          ELSE /\ status' = "running"
               /\ tokens' = Append(tokens, CloseBrace)
               /\ index' = index + 1
               /\ template_depth' = 0]_vars

\* x = "a<LF>b"; a string literal broken by a raw line terminator
BrokenString ==
    Str(<<"x", " ", "=", " ", "\"", "a">>) \o <<10>> \o Str(<<"b", "\"", ";">>)

(* C4: tokenize is fail-fast: the step in which the driver or a sub-lexer   *)
(* reports an error ends the call with one diagnostic and no tokens, a call *)
(* that has not failed carries no diagnostic, and once the call has ended   *)
(* nothing more is consumed or emitted; the string literal broken by a line *)
(* terminator fails at the line terminator with the string lexer's          *)
(* diagnostic.                                                              *)
C4_FailFast ==
    [][lexer = "tokenize" =>
          /\ status # "running" => UNCHANGED vars
          /\ status' = "err" => (tokens' = <<>> /\ error' # "")
          /\ status' \in {"running", "ok"} => error' = ""
          /\ index' <= Len(source)
          /\ source = BrokenString =>
                 /\ status' # "ok"
                 /\ status' = "err" =>
                        /\ error' = "Unexpected line terminator while parsing string literal"
                        /\ index' = 7]_vars

\* a string literal broken by a line terminator after two tokens: the call
\* failed in the middle of the source
C4_Witness ==
    /\ lexer = "tokenize"
    /\ status = "err"
    /\ error = "Unexpected line terminator while parsing string literal"
    /\ source = BrokenString
    /\ index = 7
    /\ tokens = <<>>

Consumed(r) == r.kind = "ok" => r.idx > index

(* C5: tokenize terminates: every iteration of the loop ends the call or    *)
(* moves the cursor forward by at least one character, every sub-lexer that *)
(* reports a match at the cursor has consumed at least one character, and   *)
(* every call ends.                                                         *)
C5_Terminates ==
    /\ [][(lexer = "tokenize" /\ status = "running") =>
             /\ status' \in {"ok", "err"} \/ index' > index
             /\ Consumed(try_parse_hashbang_comment(source, index))
             /\ Consumed(try_parse_comment(source, index))
             /\ Consumed(try_parse_template_literal_start(source, index))
             /\ Consumed(try_parse_identifier(source, index))
             /\ Consumed(try_parse_template_literal_expr_end(source, index))
             /\ Consumed(try_parse_regex_literal(source, index))
             /\ Consumed(try_parse_string(source, index))
             /\ Consumed(try_parse_number(source, index))
             /\ Consumed(try_parse_punctuation(source, index))
             /\ Consumed(try_parse_operator(source, index))]_vars
    /\ <>(status # "running")

\* a call that ended at the end of its source after several iterations
C5_Witness ==
    /\ lexer = "tokenize"
    /\ status = "ok"
    /\ index = Len(source)
    /\ Len(tokens) >= 3

\* the template literals with k interpolations of one identifier each
LiteralsWith == [k \in 0..MaxInterp |-> InterpolationLiterals(k)]

HiThere ==
    <<BACKTICK>>
        \o Str(<<"h", "i", " ", "$", "{", "x", "}", " ", "t", "h", "e", "r", "e">>)
        \o <<BACKTICK>>

LexemeSet == IF lexer = "operator" THEN OperatorType ELSE PunctuationType

PrefixLexemes == { l \in Lexemes(LexemeSet) : starts_with(source, l) }

Longest == CHOOSE l \in PrefixLexemes : \A m \in PrefixLexemes : Len(m) <= Len(l)

(* C7: for the operator set and for the punctuation set, when a lexeme of   *)
(* the set is a prefix of the input, prefix-match returns the longest such  *)
(* lexeme and advances the cursor by its length; when no lexeme starts with *)
(* the next character it returns no match and the cursor does not move;     *)
(* "===" gives one StrictEquality.                                          *)
C7_LongestLexeme ==
    (lexer \in {"operator", "punctuation"} /\ status # "running") =>
        /\ PrefixLexemes # {} =>
               /\ status = "ok"
               /\ tokens = <<Token(IF lexer = "operator" THEN "Operator" ELSE "Punctuation",
                                   try_from(LexemeSet, Longest), Longest)>>
               /\ index = Len(Longest)
        /\ (source = <<>> \/ fields_starting_with(LexemeSet, <<source[1]>>) = 0) =>
               /\ status = "none"
               /\ index = 0
               /\ tokens = <<>>

(* C8: prefix-match cannot fail: for every input and for both lexeme sets   *)
(* it ends by returning a lexeme of the set or no match, never an error or  *)
(* an abort.                                                                *)
C8_NeverFails ==
    (lexer \in {"operator", "punctuation"} /\ status # "running") =>
        /\ status \in {"ok", "none"}
        /\ status = "ok" => tokens[1].lexeme \in Lexemes(LexemeSet)

ReservedWordOperators ==
    { Str(w) : w \in
      { <<"t", "y", "p", "e", "o", "f">>,
        <<"i", "n", "s", "t", "a", "n", "c", "e", "o", "f">>, <<"i", "n">>,
        <<"v", "o", "i", "d">>, <<"a", "w", "a", "i", "t">>,
        <<"y", "i", "e", "l", "d">>} }

BooleanNullLiterals ==
    { Str(w) : w \in
      { <<"t", "r", "u", "e">>, <<"f", "a", "l", "s", "e">>, <<"n", "u", "l", "l">>} }

Classify(w) ==
    IF w \in Lexemes(KeywordType) THEN "Keyword"
    ELSE IF w \in ReservedWordOperators THEN "Operator"
    ELSE IF w \in BooleanNullLiterals THEN "ValueLiteral"
    ELSE "Identifier"

\* length of the longest identifier-shaped run that starts at the cursor
RunLength ==
    CHOOSE n \in 0..(Len(source) - index) :
        /\ \A k \in 1..n : token_pred(k = 1, source[index + k])
        /\ n = Len(source) - index \/ ~token_pred(n = 0, source[index + n + 1])

Run == SubSeq(source, index + 1, index + RunLength)

EscapedIn == Str(<<"\\", "u", "0", "0", "6", "9", "n", " ", "a">>)

(* C9: every maximal identifier-shaped run is emitted as exactly one token  *)
(* classified by its whole decoded lexeme: Keyword if it is a keyword,      *)
(* otherwise Operator if it is typeof, instanceof, in, void, await or       *)
(* yield, otherwise ValueLiteral if it is true, false or null, otherwise    *)
(* Identifier; whitespace yields no token; "const a = b;" tokenizes to      *)
(* Keyword(const), Identifier(a), Operator(Assignment), Identifier(b),      *)
(* Punctuation(Semicolon).                                                  *)
C9_Identifiers ==
    [][(lexer = "tokenize" /\ status = "running") =>
          /\ (RunLength > 0 /\ peek(source, index + RunLength) # Ch["\\"]) =>
                 /\ status' = "running"
                 /\ index' = index + RunLength
                 /\ Len(tokens') = Len(tokens) + 1
                 /\ SubSeq(tokens', 1, Len(tokens)) = tokens
                 /\ tokens'[Len(tokens')].type = Classify(Run)
                 /\ tokens'[Len(tokens')].lexeme = Run
          /\ is_whitespace(peek(source, index)) =>
                 /\ status' = "running"
                 /\ tokens' = tokens
                 /\ index' = index + 1
          /\ source = VariableDeclaration =>
                 /\ status' \in {"running", "ok"}
                 /\ status' = "ok" =>
                        tokens' = << Token("Keyword", "Const", Str(<<"c", "o", "n", "s", "t">>)),
                                     Token("Identifier", "", Str(<<"a">>)),
                                     Token("Operator", "Assignment", Str(<<"=">>)),
                                     Token("Identifier", "", Str(<<"b">>)),
                                     Token("Punctuation", "Semicolon", Str(<<";">>)) >>
          /\ (source = EscapedIn /\ index = 0) =>
                 /\ status' = "running"
                 /\ index' = 7
                 /\ tokens' = <<Token("Operator", "In", Str(<<"i", "n">>))>>]_vars

\* the declaration of the documentation has been tokenized to its five tokens
C9_Witness ==
    /\ lexer = "tokenize"
    /\ status = "ok"
    /\ source = VariableDeclaration
    /\ Len(tokens) = 5
    /\ tokens[1].type = "Keyword"
    /\ tokens[3].type = "Operator"

Quote == source[1]

\* number of backslashes that immediately precede position p of the literal
BackslashRun(p) ==
    CHOOSE n \in 0..(p - 2) :
        /\ \A k \in 1..n : source[p - k] = Ch["\\"]
        /\ n = p - 2 \/ source[p - n - 1] # Ch["\\"]

Unescaped(p) == BackslashRun(p) % 2 = 0

\* positions after the opening quote where the literal ends: an unescaped
\* quote of the opening kind or a raw line terminator
Ends ==
    { p \in 2..Len(source) :
          /\ Unescaped(p)
          /\ source[p] = Quote \/ is_line_terminator(source[p]) }

FirstEnd == CHOOSE p \in Ends : \A q \in Ends : p <= q

\* the character that position k of the literal contributes, NoChar if none
Contribution(k) ==
    IF ~Unescaped(k)
    THEN IF source[k] = Ch["n"] THEN 10
         ELSE IF is_line_terminator(source[k]) THEN NoChar
         ELSE source[k]
    ELSE IF source[k] = Ch["\\"] THEN NoChar ELSE source[k]

Decoded(p) ==
    SelectSeq([k \in 1..(p - 2) |-> Contribution(k + 1)], LAMBDA c : c # NoChar)

(* C10: the string lexer returns no match, consuming nothing, when the next *)
(* character is not a quote; otherwise the literal ends at the first        *)
(* unescaped occurrence of the opening quote, the token holds the decoded   *)
(* characters between the delimiters and the cursor is just past the        *)
(* closing quote; a raw line terminator before the closing quote fails with *)
(* "Unexpected line terminator while parsing string literal" and end of     *)
(* input before it fails with an unexpected-EOF error.                      *)
C10_StringLiteral ==
    (lexer = "string" /\ status # "running") =>
        IF source = <<>> \/ Quote \notin {APOSTROPHE, Ch["\""]}
        THEN status = "none" /\ index = 0 /\ tokens = <<>>
        ELSE IF Ends = {}
        THEN /\ status = "err"
             /\ error \in {"Unexpected EOF while parsing string literal",
                           "Unexpected EOF while parsing escape sequence"}
        ELSE IF source[FirstEnd] = Quote
        THEN /\ status = "ok"
             /\ index = FirstEnd
             /\ tokens = <<Token("StringLiteral", "", Decoded(FirstEnd))>>
        ELSE /\ status = "err"
             /\ error = "Unexpected line terminator while parsing string literal"

\* a literal in single quotes that holds a double quote and an escaped
\* single quote
C10_Witness ==
    /\ lexer = "string"
    /\ status = "ok"
    /\ source = <<APOSTROPHE, Ch["\""], Ch["\\"], APOSTROPHE, APOSTROPHE>>
    /\ tokens = <<Token("StringLiteral", "", <<Ch["\""], APOSTROPHE>>)>>
    /\ index = 5

(* ---- regular expression literals ---- *)

\* positions after the opening slash where the pattern ends: a slash that no
\* backslash escapes, or a line terminator
RegexEnds ==
    { p \in 2..Len(source) :
          \/ source[p] = Ch["/"] /\ Unescaped(p)
          \/ is_line_terminator(source[p]) }

RegexFirstEnd == CHOOSE p \in RegexEnds : \A q \in RegexEnds : p <= q

(* C11: the regex lexer takes the pattern verbatim up to the first slash    *)
(* that no preceding backslash escapes: an escaped slash does not end the   *)
(* pattern and stays in its text; a line terminator before the closing      *)
(* slash is fatal, and end of input before it fails with "Unterminated      *)
(* regex literal".                                                          *)
C11_RegexPattern ==
    (lexer = "regex" /\ status # "running" /\ peek(source, 0) = Ch["/"]) =>
        IF RegexEnds = {}
        THEN status = "err" /\ error = "Unterminated regex literal"
        ELSE IF source[RegexFirstEnd] = Ch["/"]
        THEN \/ /\ status = "ok"
                /\ tokens[1].lexeme = SubSeq(source, 2, RegexFirstEnd - 1)
                /\ index >= RegexFirstEnd
             \/ /\ status = "err"
                /\ index >= RegexFirstEnd
        ELSE /\ status = "err"
             /\ error = "Unexpected line terminator while parsing regular expression"

\* the same statement for the patterns that hold no backslash
C11_NoBackslash ==
    (\A p \in DOMAIN source : source[p] # Ch["\\"]) => C11_RegexPattern

\* the position of the slash that closes the pattern, 0 if there is none
ClosingSlash ==
    IF peek(source, 0) = Ch["/"] /\ parse_regex_pattern(source, 1).kind = "ok"
    THEN parse_regex_pattern(source, 1).idx
    ELSE 0

FlagLetters == { Ch[c] : c \in {"g", "i", "m", "s", "u", "y"} }

\* the length of the longest run of flag letters after the closing slash
FlagRun ==
    CHOOSE n \in 0..(Len(source) - ClosingSlash) :
        /\ \A k \in 1..n : source[ClosingSlash + k] \in FlagLetters
        /\ peek(source, ClosingSlash + n) \notin FlagLetters

\* the character after the run of flags, NoChar at end of input
AfterFlags == peek(source, ClosingSlash + FlagRun)

(* C12: after the closing slash the regex lexer consumes the longest run of *)
(* letters of {g,i,m,s,u,y} as the flags; an alphabetic character outside   *)
(* that set met by the scan fails with "Invalid regular expression flag     *)
(* '<c>'"; a non-alphabetic character, or end of input, stops the scan and  *)
(* is not consumed.                                                         *)
C12_RegexFlags ==
    (lexer = "regex" /\ status # "running" /\ ClosingSlash > 0) =>
        IF AfterFlags # NoChar /\ is_alphabetic(AfterFlags)
        THEN /\ status = "err"
             /\ error = "Invalid regular expression flag '"
                            \o Display(AfterFlags) \o "'"
        ELSE /\ status = "ok"
             /\ tokens[1].type = "RegexLiteral"
             /\ tokens[1].flags =
                    SubSeq(source, ClosingSlash + 1, ClosingSlash + FlagRun)
             /\ index = ClosingSlash + FlagRun

\* /foo/gz fails on the letter z
C12_InvalidFlag ==
    (/\ lexer = "regex"
     /\ status # "running"
     /\ source = Str(<<"/", "f", "o", "o", "/", "g", "z">>)) =>
        status = "err" /\ error = "Invalid regular expression flag 'z'"

\* /foo/gm gives the pattern foo and the flags gm
C12_Witness ==
    /\ lexer = "regex"
    /\ status = "ok"
    /\ source = Str(<<"/", "f", "o", "o", "/", "g", "m">>)
    /\ tokens = <<[Token("RegexLiteral", "", Str(<<"f", "o", "o">>))
                      EXCEPT !.flags = Str(<<"g", "m">>)]>>
    /\ index = 7

(* ---- numeric literals ---- *)

\* the prefixes of the literals that are not decimal, with their base
RadixPrefixes ==
    { <<Str(<<"0", "x">>), 16>>, <<Str(<<"0", "X">>), 16>>,
      <<Str(<<"0", "b">>), 2>>, <<Str(<<"0", "B">>), 2>>,
      <<Str(<<"0", "o">>), 8>>, <<Str(<<"0", "O">>), 8>>,
      <<Str(<<"0">>), 8>> }

DigitsOf(base) ==
    { c \in 48..102 : is_hex_digit(c) /\ to_digit(c) < base }

\* the source is the prefix, n >= 1 digits of the base and the given tail
IsRadixLiteral(prefix, base, n, tail) ==
    /\ Len(source) = Len(prefix) + n + Len(tail)
    /\ SubSeq(source, 1, Len(prefix)) = prefix
    /\ \A k \in 1..n : source[Len(prefix) + k] \in DigitsOf(base)
    /\ SubSeq(source, Len(prefix) + n + 1, Len(source)) = tail

\* the integer that the digits source[from + 1 .. from + n] denote in a base
RECURSIVE Denotes(_, _, _)
Denotes(from, n, base) ==
    IF n = 0 THEN 0
    ELSE to_digit(source[from + 1]) * base ^ (n - 1) + Denotes(from + 1, n - 1, base)

(* C13: a literal with a 0x/0X, 0b/0B or 0o/0O prefix, or a legacy-octal    *)
(* leading 0, followed by any number (at least one) of digits of that base  *)
(* gives a number whose value is the integer the digits denote, and with a  *)
(* trailing n a BigInt with that same integer value.                        *)
C13_RadixLiterals ==
    (lexer = "number" /\ status # "running") =>
        \A p \in RadixPrefixes, n \in 1..Len(source) :
            /\ IsRadixLiteral(p[1], p[2], n, <<>>) =>
                    /\ status = "ok"
                    /\ index = Len(source)
                    /\ tokens[1].kind = "Primitive"
                    /\ tokens[1].exp = 0
                    /\ tokens[1].value = Denotes(Len(p[1]), n, p[2])
            /\ IsRadixLiteral(p[1], p[2], n, <<Ch["n"]>>) =>
                    /\ status = "ok"
                    /\ index = Len(source)
                    /\ tokens[1].kind = "BigInt"
                    /\ tokens[1].value = Denotes(Len(p[1]), n, p[2])

\* the same statement for the literals of at most seven digits
C13_ShortLiterals == Len(source) <= 10 => C13_RadixLiterals

\* what the number lexer gives for the source without its first character
Body == try_parse_number(Tail(source), 0)

(* C14: the sign is applied at the end for every form of numeric literal:   *)
(* the value produced for '-' followed by a literal body is the negation of *)
(* the value produced for the body alone.                                   *)
C14_SignApplied ==
    (/\ lexer = "number"
     /\ status # "running"
     /\ peek(source, 0) = Ch["-"]
     /\ is_ascii_digit(peek(source, 1))
     /\ Body.kind = "ok") =>
        /\ status = "ok"
        /\ index = Body.idx + 1
        /\ tokens[1].kind = Body.tok.kind
        /\ tokens[1].value = 0 - Body.tok.value
        /\ tokens[1].exp = Body.tok.exp

\* the same statement for the literals without an exponent
C14_NoExponent ==
    (\A p \in DOMAIN source : source[p] # Ch["e"]) => C14_SignApplied

\* the number of characters of an optional sign at cursor i
SignAt(i) == IF peek(source, i) \in {Ch["+"], Ch["-"]} THEN 1 ELSE 0

\* the cursor after the longest run, from cursor i, of characters of a set
RunEnd(i, set) ==
    CHOOSE j \in i..Len(source) :
        /\ \A k \in (i + 1)..j : source[k] \in set
        /\ peek(source, j) \notin set

Digits == 48..57

\* a base-10 literal starts at the first character or after a sign
IsDecimal == peek(source, SignAt(0)) \in 49..57

\* the cursor after the digits and points of the literal
MantissaEnd == RunEnd(SignAt(0), Digits \cup {Ch["."]})

HasFraction ==
    \E k \in (SignAt(0) + 1)..MantissaEnd : source[k] = Ch["."]

\* the literal has an exponent: a marker, an optional sign and some digits
HasExponent ==
    /\ peek(source, MantissaEnd) \in {Ch["e"], Ch["E"]}
    /\ is_ascii_digit(peek(source, MantissaEnd + 1 + SignAt(MantissaEnd + 1)))

\* the cursor after the exponent
ExponentEnd == RunEnd(MantissaEnd + 1 + SignAt(MantissaEnd + 1), Digits)

\* the diagnostic of a lexeme that is no BigInt, for some part of the source
BigIntFailure ==
    \E a \in 1..Len(source), b \in 1..Len(source) :
        error = "failed to parse '" \o Text(SubSeq(source, a, b)) \o "' into BigInt"

(* C15: a base-10 literal that has a '.' or an exponent and is immediately  *)
(* followed by n makes the number lexer fail with a "failed to parse ...    *)
(* into BigInt" error; it never yields a number token that leaves the n     *)
(* unconsumed.                                                              *)
C15_BigIntExclusive ==
    (/\ lexer = "number"
     /\ status # "running"
     /\ IsDecimal
     /\ \/ HasExponent /\ peek(source, ExponentEnd) = Ch["n"]
        \/ ~HasExponent /\ HasFraction /\ peek(source, MantissaEnd) = Ch["n"]) =>
        status = "err" /\ BigIntFailure

\* the same statement for the literals without an exponent
C15_FractionOnly ==
    ~(IsDecimal /\ HasExponent) => C15_BigIntExclusive

\* the positions of the points of the literal
Points == { k \in (SignAt(0) + 1)..MantissaEnd : source[k] = Ch["."] }

\* the number of digits after the point
FractionDigits == IF Points = {} THEN 0 ELSE MantissaEnd - (CHOOSE k \in Points : TRUE)

\* the cursor at the first digit of the exponent
ExponentStart == MantissaEnd + 1 + SignAt(MantissaEnd + 1)

ExponentValue ==
    (IF peek(source, MantissaEnd + 1) = Ch["-"] THEN 0 - 1 ELSE 1)
        * Denotes(ExponentStart, ExponentEnd - ExponentStart, 10)

(* C16: after the base-10 digits the number lexer accepts an optional       *)
(* exponent introduced by e or E, with an optional sign and one or more     *)
(* digits, and consumes it as part of the same number token; an exponent    *)
(* marker followed by no digit fails with "Expected a number after 'e'".    *)
C16_Exponent ==
    (/\ lexer = "number"
     /\ status # "running"
     /\ IsDecimal
     /\ Cardinality(Points) <= 1
     /\ peek(source, MantissaEnd) \in {Ch["e"], Ch["E"]}) =>
        IF HasExponent
        THEN peek(source, ExponentEnd) # Ch["n"] =>
                 /\ status = "ok"
                 /\ index = ExponentEnd
                 /\ tokens[1].kind = "Primitive"
                 /\ tokens[1].exp = ExponentValue - FractionDigits
        ELSE /\ status = "err"
             /\ error = "Expected a number after 'e' while parsing numeric literal"

\* the same statement for the marker e
C16_LowerCase == peek(source, MantissaEnd) # Ch["E"] => C16_Exponent

(* C20: when the number lexer returns no match the cursor is exactly where  *)
(* it was before the call, for every input, including an input that begins  *)
(* with '+' or '-' not followed by a digit.                                 *)
C20_NoMatchNoEffect ==
    (lexer = "number" /\ status = "none") => index = 0

\* the same statement for the inputs that do not begin with a sign
C20_Unsigned == SignAt(0) = 0 => C20_NoMatchNoEffect

(* ---- braced Unicode escapes ---- *)

\* the source is u{ digits } with n >= 1 hexadecimal digits
IsBraced(n) ==
    /\ Len(source) = n + 3
    /\ SubSeq(source, 1, 2) = Str(<<"u", "{">>)
    /\ \A k \in 3..(n + 2) : is_hex_digit(source[k])
    /\ source[n + 3] = Ch["}"]

\* the number of zeros the digits start with
LeadingZeros == RunEnd(2, {Ch["0"]}) - 2

\* the number of digits from the first one that is not zero
Significant(n) == n - LeadingZeros

\* the value of the digits, for at most six significant digits
BracedValue(n) == Denotes(2 + LeadingZeros, Significant(n), 16)

\* the value exceeds 0x10FFFF
Exceeds(n) == Significant(n) > 6 \/ BracedValue(n) > 1114111

(* C17: a braced Unicode escape whose hexadecimal value exceeds 0x10FFFF    *)
(* fails with "Undefined Unicode code-point" for every number of digits     *)
(* between the braces, and a braced escape whose value is a valid code      *)
(* point decodes to exactly that code point.                                *)
C17_BracedEscape ==
    (lexer = "escape" /\ status # "running") =>
        \A n \in 1..Len(source) :
            IsBraced(n) =>
                IF Exceeds(n)
                THEN status = "err" /\ error = "Undefined Unicode code-point"
                ELSE is_char(BracedValue(n)) =>
                         /\ status = "ok"
                         /\ tokens[1].lexeme = <<BracedValue(n)>>
                         /\ index = Len(source)

\* the same statement for the escapes of at most eight significant digits
C17_ShortRuns ==
    (\A n \in 1..Len(source) : IsBraced(n) => Significant(n) < OverflowDigits)
        => C17_BracedEscape

(* ---- escapes in identifiers ---- *)

Backslashes == { p \in DOMAIN source : source[p] = Ch["\\"] }

\* the position of the first backslash of the source
FirstBackslash == CHOOSE p \in Backslashes : \A q \in Backslashes : p <= q

\* the characters before the first backslash are identifier characters
PlainBefore(p) == \A k \in 1..(p - 1) : token_pred(k = 1, source[k])

\* the escape after the first backslash, as the escape parser decodes it
FirstEscape == try_parse_escape(source, FirstBackslash)

(* C18: inside an identifier every backslash escape must decode to a        *)
(* character of the class of its position (first character: alphabetic, _   *)
(* or $; later: alphanumeric, _ or $); the decoded character becomes part   *)
(* of the lexeme, and an escape that does not decode to such a character    *)
(* fails with "Invalid escape sequence in identifier".                      *)
C18_IdentifierEscapes ==
    (/\ lexer = "identifier"
     /\ status # "running"
     /\ Backslashes # {}
     /\ PlainBefore(FirstBackslash)
     /\ FirstEscape.kind = "ok") =>
        IF /\ FirstEscape.ch # NoChar
           /\ token_pred(FirstBackslash = 1, FirstEscape.ch)
        THEN \/ /\ status = "ok"
                /\ Len(tokens[1].lexeme) >= FirstBackslash
                /\ SubSeq(tokens[1].lexeme, 1, FirstBackslash) =
                       Append(SubSeq(source, 1, FirstBackslash - 1), FirstEscape.ch)
                /\ index >= FirstEscape.idx
             \/ /\ status = "err"
                /\ index > FirstEscape.idx
        ELSE /\ status = "err"
             /\ error = "Invalid escape sequence in identifier"
             /\ index = FirstEscape.idx

\* the same statement for the escapes that decode to a character
C18_DecodedEscapes ==
    (Backslashes # {} /\ FirstEscape.kind = "ok" /\ FirstEscape.ch = NoChar)
        \/ C18_IdentifierEscapes

(* ---- the cursor ---- *)

\* what one call of next() does to the position and what it returns
NextStep ==
    IF index < Len(source)
    THEN /\ index' = index + 1
         /\ status' = "ok"
         /\ tokens' = Append(tokens, Token("Char", "", <<source[index + 1]>>))
         /\ IF source[index + 1] = 10
            THEN line' = line + 1 /\ column' = 1
            ELSE line' = line /\ column' = column + 1
    ELSE /\ status' = "none"
         /\ tokens' = tokens
         /\ <<line, column, index>>' = <<line, column, index>>

(* C19: next() returns the character under the cursor and advances the      *)
(* index by exactly one; a line feed sets column to 1 and increments line,  *)
(* any other character increments column and leaves line unchanged; at end  *)
(* of input it returns none and leaves line, column and index unchanged.    *)
(* Hence the index equals the number of characters returned, never          *)
(* decreases and stays within 0..Len(source).                               *)
C19_CursorNext ==
    /\ [](lexer = "next" =>
             /\ index = Len(tokens)
             /\ index \in 0..Len(source))
    /\ [][lexer = "next" => NextStep /\ index' >= index]_vars

\* the end of a two-line input is reached and next() has returned none
C19_Witness ==
    /\ lexer = "next"
    /\ status = "none"
    /\ source = <<Ch["a"], 10, Ch["a"]>>
    /\ index = 3
    /\ line = 2
    /\ column = 2
    /\ Len(tokens) = 3

(* ---- no match of the identifier lexer ---- *)

(* C21: the identifier lexer returns no match only when the lexeme would be *)
(* empty, and it has then consumed no character, for every input, an input  *)
(* that begins with a backslash included.                                   *)
C21_IdentifierNoMatch ==
    (lexer = "identifier" /\ status = "none") =>
        /\ index = 0
        /\ source = <<>> \/ ~token_pred(TRUE, source[1])

\* the same statement for the inputs that do not begin with a backslash
C21_NoLeadingBackslash == peek(source, 0) # Ch["\\"] => C21_IdentifierNoMatch

(* ---- the hashbang comment ---- *)

\* the cursor of the driver stands on '#' '!' at the top of the loop
AtHashbang ==
    /\ lexer = "tokenize"
    /\ status = "running"
    /\ peek(source, index) = Ch["#"]
    /\ peek_forward(source, index, 1) = Ch["!"]

\* 1-based positions of the line terminators after the '#' '!' at the cursor
HashbangEnds ==
    { e \in index + 3 .. Len(source) : is_line_terminator(source[e]) }

\* the end of the hashbang line: its terminator, or one past the source
HashbangEnd ==
    IF HashbangEnds = {} THEN Len(source) + 1
    ELSE CHOOSE e \in HashbangEnds : \A f \in HashbangEnds : e <= f

(* C22: a hashbang comment ('#' '!' to the end of the line) is recognised  *)
(* only while the token list is empty: the iteration that meets '#' '!'    *)
(* with no token yet pushes the Hashbang comment and goes on after the     *)
(* line, the iteration that meets it after a token fails with the          *)
(* unexpected-character error, and a Hashbang token is never anywhere but  *)
(* first in the list.                                                      *)
C22_Hashbang ==
    /\ [](lexer = "tokenize" =>
             \A k \in 1..Len(tokens) : tokens[k].kind = "Hashbang" => k = 1)
    /\ [][AtHashbang =>
             IF tokens = <<>>
             THEN /\ status' = "running"
                  /\ tokens' = <<Token("Comment", "Hashbang",
                                       SubSeq(source, index + 3, HashbangEnd - 1))>>
                  /\ index' = IF HashbangEnds = {} THEN Len(source) ELSE HashbangEnd
             ELSE /\ status' = "err"
                  /\ error' = "Unexpected character"
                  /\ tokens' = <<>>
                  /\ index' = index]_vars

\* "x#!": the identifier is pushed, then the '#' '!' ends the call
C22_Witness ==
    /\ lexer = "tokenize"
    /\ source = <<Ch["x"], Ch["#"], Ch["!"]>>
    /\ status = "err"
    /\ error = "Unexpected character"
    /\ index = 1

(* ---- the text segment of a template literal ---- *)

\* 0-based positions of the characters of the source that the scan from i
\* meets outside an escape sequence, up to the first escape that fails
RECURSIVE RawPositions(_)
RawPositions(i) ==
    IF i >= Len(source) THEN {}
    ELSE IF source[i + 1] # Ch["\\"] THEN {i} \cup RawPositions(i + 1)
    ELSE IF try_parse_escape(source, i + 1).kind = "ok"
    THEN RawPositions(try_parse_escape(source, i + 1).idx)
    ELSE {}

\* position of the backslash of the first escape that fails, if any
RECURSIVE FirstBrokenEscape(_)
FirstBrokenEscape(i) ==
    IF i >= Len(source) THEN NoChar
    ELSE IF source[i + 1] # Ch["\\"] THEN FirstBrokenEscape(i + 1)
    ELSE IF try_parse_escape(source, i + 1).kind = "ok"
    THEN FirstBrokenEscape(try_parse_escape(source, i + 1).idx)
    ELSE i

\* the raw backticks and the raw '$' directly followed by '{'
SegmentEnds ==
    { p \in RawPositions(0) :
          \/ source[p + 1] = BACKTICK
          \/ source[p + 1] = Ch["$"] /\ peek(source, p + 1) = Ch["{"] }

SegmentEnd == CHOOSE t \in SegmentEnds : \A u \in SegmentEnds : t <= u

\* the text of the source from i up to t: raw characters as they are, each
\* escape as the character it decodes to, a line continuation as nothing
RECURSIVE SegmentText(_, _)
SegmentText(i, t) ==
    IF i >= t THEN <<>>
    ELSE IF source[i + 1] # Ch["\\"] THEN <<source[i + 1]>> \o SegmentText(i + 1, t)
    ELSE (IF try_parse_escape(source, i + 1).ch = NoChar THEN <<>>
          ELSE <<try_parse_escape(source, i + 1).ch>>)
             \o SegmentText(try_parse_escape(source, i + 1).idx, t)

(* C23: a template text segment ends only at the first raw backtick, which *)
(* gives a complete segment and no expression-open, or at the first raw    *)
(* '$' directly followed by '{', which gives an incomplete segment and an  *)
(* expression-open with both characters consumed; escaped backticks,       *)
(* escaped '$', a '$' not followed by '{' and raw line terminators are     *)
(* text of the segment; when the input ends before either terminator the   *)
(* call fails with "Unexpected EOF while parsing template literal" (an     *)
(* escape that fails before that fails the call with its own diagnostic).  *)
C23_TemplateSegment ==
    (lexer = "template" /\ status # "running") =>
        IF SegmentEnds # {}
        THEN /\ status = "ok"
             /\ tokens[1] = TemplateLiteralString(SegmentText(0, SegmentEnd),
                                                  source[SegmentEnd + 1] = BACKTICK)
             /\ IF source[SegmentEnd + 1] = BACKTICK
                THEN tokens[1].complete /\ Len(tokens) = 1 /\ index = SegmentEnd + 1
                ELSE /\ ~tokens[1].complete
                     /\ tokens = <<tokens[1], TemplateLiteralExprOpen>>
                     /\ index = SegmentEnd + 2
        ELSE IF FirstBrokenEscape(0) = NoChar
        THEN /\ status = "err"
             /\ error = "Unexpected EOF while parsing template literal"
             /\ tokens = <<>>
        ELSE /\ status \in {"err", "panic"}
             /\ error = try_parse_escape(source, FirstBrokenEscape(0) + 1).msg
             /\ tokens = <<>>

\* an escaped backtick, a lone '$' and a raw line feed are text of a
\* segment that the raw backtick completes
C23_Witness ==
    /\ lexer = "template"
    /\ source = <<Ch["\\"], BACKTICK, Ch["$"], 10, BACKTICK>>
    /\ status = "ok"
    /\ tokens = <<TemplateLiteralString(<<BACKTICK, Ch["$"], 10>>, TRUE)>>
    /\ index = 5

(* ---- the decimal point ---- *)

\* the '.' among the characters that the call consumed
ConsumedPoints == { k \in 1..index : source[k] = Ch["."] }

(* C24: the base-10 path takes at most one '.' into the number: once one   *)
(* '.' has been consumed, a second '.' is not consumed by the same call.   *)
C24_OnePoint ==
    (lexer = "number" /\ status # "running") => Cardinality(ConsumedPoints) <= 1

\* what does hold: no token is produced from more than one '.'
C24_NoTokenWithTwoPoints ==
    (lexer = "number" /\ status = "ok") => Cardinality(ConsumedPoints) <= 1

(* ---- numeric separators ---- *)

\* the source with its numeric separators left out
RECURSIVE WithoutSeparators(_)
WithoutSeparators(s) ==
    IF s = <<>> THEN <<>>
    ELSE (IF is_numeric_separator(Head(s)) THEN <<>> ELSE <<Head(s)>>)
             \o WithoutSeparators(Tail(s))

\* a separator directly after the leading 0 of the literal
SeparatorAfterLeadingZero ==
    /\ peek(source, SignAt(0)) = Ch["0"]
    /\ peek(source, SignAt(0) + 1) = Ch["_"]

\* a separator somewhere after the 'e' of a decimal literal
SeparatorInExponent ==
    \E j, k \in 1..Len(source) :
        j < k /\ source[j] = Ch["e"] /\ source[k] = Ch["_"]

(* C25: numeric separators are skipped and add nothing to the value where  *)
(* a digit of the literal is legal (integer part, fraction, exponent       *)
(* digits, digits of hex, binary and octal literals): the call gives what  *)
(* it gives on the same input without the separators, and has consumed the *)
(* same characters besides them; a separator directly after a leading 0    *)
(* fails with "Numeric separator can not be used after leading 0".         *)
C25_Separators ==
    (lexer = "number" /\ status # "running") =>
        IF SeparatorAfterLeadingZero
        THEN /\ status = "err"
             /\ error = "Numeric separator can not be used after leading 0"
             /\ tokens = <<>>
        ELSE \E r \in {try_parse_number(WithoutSeparators(source), 0)} :
                 /\ status = r.kind
                 /\ error = r.msg
                 /\ tokens = IF r.kind = "ok" THEN <<r.tok>> ELSE <<>>
                 /\ Len(WithoutSeparators(SubSeq(source, 1, index))) = r.idx

\* the same statement for the inputs with no separator in the exponent
C25_MantissaSeparators == ~SeparatorInExponent => C25_Separators

(* ---- the first digit of a non-decimal literal ---- *)

\* the character after the leading 0 of the literal
AfterZero == peek(source, SignAt(0) + 1)

\* the first character after the two-character prefix and any separators
AfterPrefix == peek(source, RunEnd(SignAt(0) + 2, {Ch["_"]}))

\* the first character after the leading 0 of a legacy octal literal
AfterLegacyZero == peek(source, RunEnd(SignAt(0) + 1, {Ch["_"]}))

HexDigitExpected ==
    "Expected a valid hexadecimal digit after '0x' while parsing numeric literal"

BinDigitExpected ==
    "Expected a valid binary digit after '0b' while parsing numeric literal"

OctDigitExpected ==
    "Expected a valid octal digit while parsing octal-formatted numeric literal"

\* the diagnostic of the branch that the literal enters without a valid
\* first digit, "" if it has one or enters no such branch
DigitExpected ==
    IF peek(source, SignAt(0)) # Ch["0"] THEN ""
    ELSE IF AfterZero \in {Ch["x"], Ch["X"]}
    THEN (IF AfterPrefix \in HexDigits THEN "" ELSE HexDigitExpected)
    ELSE IF AfterZero \in {Ch["b"], Ch["B"]}
    THEN (IF AfterPrefix \in BinDigits THEN "" ELSE BinDigitExpected)
    ELSE IF AfterZero \in {Ch["o"], Ch["O"]}
    THEN (IF AfterPrefix \in OctDigits THEN "" ELSE OctDigitExpected)
    ELSE IF AfterZero \in Digits
    THEN (IF AfterLegacyZero \in OctDigits THEN "" ELSE OctDigitExpected)
    ELSE ""

(* C26: each non-decimal branch requires a valid digit after its prefix:   *)
(* 0x, 0b, 0o (either case) or the leading 0 of a legacy octal literal     *)
(* followed by a character that is not a digit of the base (or by nothing) *)
(* fails with the "Expected a valid ... digit" diagnostic of the branch    *)
(* and gives no token, and these diagnostics are given in no other case.   *)
C26_DigitAfterPrefix ==
    (lexer = "number" /\ status # "running") =>
        /\ DigitExpected # "" =>
               status = "err" /\ error = DigitExpected /\ tokens = <<>>
        /\ error \in {HexDigitExpected, BinDigitExpected, OctDigitExpected} =>
               error = DigitExpected

\* "08": a legacy octal literal whose first digit is not an octal digit
C26_Witness ==
    /\ lexer = "number"
    /\ source = Str(<<"0", "8">>)
    /\ status = "err"
    /\ error = OctDigitExpected
    /\ tokens = <<>>

(* ---- octal escapes ---- *)

\* the escape begins with an octal digit
IsOctalEscape == is_oct_digit(peek(source, 0))

\* the number of digits of the escape: the leading octal digits, three at most
OctalLength ==
    IF RunEnd(0, OctDigits) < 3 THEN RunEnd(0, OctDigits) ELSE 3

OctalValue == Denotes(0, OctalLength, 8)

(* C27: an octal escape consumes at most three octal digits in all and     *)
(* stops before the first character that is no octal digit; it gives the   *)
(* character whose code is the value of the digits when the value is at    *)
(* most 0o377 and fails with the out-of-range error otherwise.             *)
C27_OctalEscape ==
    (lexer = "escape" /\ status # "running" /\ IsOctalEscape) =>
        /\ index = OctalLength
        /\ IF OctalValue <= 255
           THEN status = "ok" /\ tokens = <<Token("Escape", "", <<OctalValue>>)>>
           ELSE /\ status = "err"
                /\ tokens = <<>>
                /\ error = "invalid octal escape sequence: out of range: "
                               \o Text(Decimal(OctalValue))

\* "39" decodes to U+0003 and leaves the 9
C27_Witness ==
    /\ lexer = "escape"
    /\ source = Str(<<"3", "9">>)
    /\ status = "ok"
    /\ tokens = <<Token("Escape", "", <<3>>)>>
    /\ index = 1

(* ---- the shapes of a Unicode escape ---- *)

IsUnicodeEscape == peek(source, 0) = Ch["u"]

\* u H H H H: the four characters after the u are hex digits
FixedShape ==
    /\ peek(source, 1) # Ch["{"]
    /\ \A k \in 1..4 : is_hex_digit(peek(source, k))

\* u { H+ }: one or more hex digits between the braces
BracedShape ==
    /\ peek(source, 1) = Ch["{"]
    /\ RunEnd(2, HexDigits) > 2
    /\ peek(source, RunEnd(2, HexDigits)) = Ch["}"]

EmptyBraces == peek(source, 1) = Ch["{"] /\ peek(source, 2) = Ch["}"]

(* C28: a Unicode escape is accepted only unbraced with exactly four hex   *)
(* digits (the u and four characters are consumed, a fifth hex digit is    *)
(* left) or braced with one or more hex digits between '{' and '}'; any    *)
(* other shape (fewer than four unbraced digits, a non-hex character,      *)
(* empty braces) is a fatal error.                                         *)
C28_UnicodeShapes ==
    (lexer = "escape" /\ status # "running" /\ IsUnicodeEscape) =>
        IF FixedShape THEN status = "ok" => index = 5
        ELSE IF BracedShape THEN status = "ok" => index = RunEnd(2, HexDigits) + 1
        ELSE status \in {"err", "panic"} /\ tokens = <<>>

\* the same statement for the escapes that are not u{}
C28_DigitsInBraces == ~EmptyBraces => C28_UnicodeShapes

(* ---- the previous position and the lookahead ---- *)

\* the value that the iterator's current_position() returns
CurrentPosition == Position(line, column, index)

(* C29: previous_position() returns {line 1, column 1, index 0} before any *)
(* next() call; every next() call leaves in it the value current_position()*)
(* had just before the call, so after a next() that returned a character   *)
(* its index is the current index minus one and after a next() at the end  *)
(* of the input it equals the current position; peek() and peek_forward(n) *)
(* change neither position.                                                *)
C29_PreviousPosition ==
    /\ [](lexer = "code_iter" =>
             /\ status = "running" =>
                    PreviousPosition(previous_position) = Position(1, 1, 0)
             /\ status = "ok" =>
                    PreviousPosition(previous_position).index = index - 1
             /\ status = "none" =>
                    PreviousPosition(previous_position) = CurrentPosition)
    /\ [][lexer = "code_iter" =>
             /\ CallNext =>
                    PreviousPosition(previous_position)' = CurrentPosition
             /\ ~CallNext =>
                    /\ CurrentPosition' = CurrentPosition
                    /\ PreviousPosition(previous_position)'
                           = PreviousPosition(previous_position)]_vars

\* a next() over a line feed, then a peek that saw the end of the input:
\* the previous position is still the one before the line feed
C29_Witness ==
    /\ lexer = "code_iter"
    /\ source = <<Ch["a"], 10>>
    /\ status = "ok"
    /\ index = 2
    /\ CurrentPosition = Position(2, 1, 2)
    /\ PreviousPosition(previous_position) = Position(1, 2, 1)
    /\ peeked = NoChar

(* ---- block comments ---- *)

IsBlockComment == peek(source, 0) = Ch["/"] /\ peek(source, 1) = Ch["*"]

\* 0-based positions, after the opening, of a '*' directly followed by '/'
BlockEnds ==
    { p \in 2..Len(source) :
          peek(source, p) = Ch["*"] /\ peek(source, p + 1) = Ch["/"] }

BlockEnd == CHOOSE p \in BlockEnds : \A q \in BlockEnds : p <= q

(* C30: a block comment with no closing '*' '/' before the end of the      *)
(* input is no error: the comment lexer consumes every remaining character *)
(* and returns a Block comment that holds all of them; a '/' directly      *)
(* after the opening does not close the comment, which otherwise ends at   *)
(* the first '*' '/' after the opening.                                    *)
C30_BlockComment ==
    (lexer = "comment" /\ status # "running" /\ IsBlockComment) =>
        /\ status = "ok"
        /\ IF BlockEnds = {}
           THEN /\ index = Len(source)
                /\ tokens = <<Token("Comment", "Block",
                                    SubSeq(source, 3, Len(source)))>>
           ELSE /\ index = BlockEnd + 2
                /\ tokens = <<Token("Comment", "Block",
                                    SubSeq(source, 3, BlockEnd))>>

\* the '/' after the opening is text of a comment that the end of the input ends
C30_Witness ==
    /\ lexer = "comment"
    /\ source = Str(<<"/", "*", "/", "a">>)
    /\ status = "ok"
    /\ index = 4
    /\ tokens = <<Token("Comment", "Block", Str(<<"/", "a">>))>>

====
